---- MODULE Spec2Model ----
(***************************************************************************)
(* A model of the ronin conversation engine: the permission cache          *)
(* (src/src/services/PermissionCache.js), the streaming orchestrator       *)
(* getClaudeResponse / getLocalLLMResponse (src/src/api.js), the            *)
(* newline-delimited JSON reader of OllamaProvider.streamResponse          *)
(* (src/src/providers/OllamaProvider.js), and the tool-host manager        *)
(* MCPManager (src/unnamed/part_004) with its MCPClient hosts              *)
(* (src/src/mcp/BuiltInServer.js) and the /mcp commands                    *)
(* (src/src/services/CommandService.js).                                   *)
(*                                                                         *)
(* Strings are modelled as "texts": sequences of symbols, each symbol a    *)
(* TLA+ string standing for one or more characters that the code never     *)
(* looks inside ("\n", " " and "data:" are symbols of their own).          *)
(***************************************************************************)
EXTENDS Integers, Sequences, FiniteSets, TLC

VARIABLES
  pcache,      \* PermissionCache instances: instance -> this.cache
  file,        \* ~/.ronin/permissions.cache: NoFile or the saved cache
  now,         \* Date.now(), in milliseconds
  ticks,       \* number of clock advances so far (bounded)
  lastOp,      \* the PermissionCache call made by the last step, with its result
  addedAt,     \* history: key -> time of the last addApproval(.., true), -1 if none or cleared since
  builtAfter,  \* history: instance -> keys whose addApproval(.., true) completed before it was constructed
  askSnap,     \* history: instance -> answers of isApproved when always-ask was turned on
  remembered,  \* history: the calls given to addApproval(.., true) since the last clearCache
  \* getClaudeResponse / getLocalLLMResponse
  cfg,               \* the arguments of the call: which collaborators were passed
  pc,                \* where the generator is
  round,             \* number of backend requests made
  messages,          \* the conversation sent to the backend
  stream,            \* the text the backend sends in this round
  sent,              \* how much of it has been delivered
  partialLine,       \* carry buffer
  lines,             \* complete lines of the current chunk still to be processed
  toolUseBlocks,
  currentToolUse,
  assistantResponse,
  usedTools,
  fullResponse,      \* getLocalLLMResponse
  toolExecuted,      \* getLocalLLMResponse
  pending,           \* the chunks the local provider has still to yield
  deltas,            \* history: text deltas yielded in this round
  finalized,         \* history: tool calls finalized in this round
  callSeq,           \* history: number of tool calls finalized so far
  starts,            \* history: number of tool calls the backend has started so far
  approvals,         \* history: calls approved (cached permission or collaborator)
  declined,          \* history: calls the collaborator declined
  executed,          \* history: calls passed to mcpManager.executeTool
  requests,          \* history: the messages of each backend request
  \* OllamaProvider.streamResponse: the bytes of response.data and how many have
  \* arrived, the carry buffer, what was yielded, and where the generator is
  response, received, buffer, yielded, reading,
  \* MCPManager, its hosts and the /mcp commands
  mcpConfig,         \* configService.mcpConfig.servers: host name -> configuration entry
  diskConfig,        \* the servers of mcp.json as they are on disk
  servers,           \* this.servers: the names of the Map, in insertion order
  host,              \* host name -> the state of its MCPClient instance
  toolMap,           \* this.tools: tool name -> the host that owns the entry
  serverStatus,      \* this.serverStatus
  disabledServers,   \* this.disabledServers
  initialized,       \* this.initialized
  mpc,               \* which manager operation is under way
  todo,              \* initialize: the configuration entries still to be processed
  results,           \* initialize: { success, failed, errors }
  diff,              \* mcpReload: { added, removed, existing }
  lastCall,          \* the outcome of the last manager or command call
  commands,          \* how many calls and events the session has seen
  \* BuiltInServer
  biTools,           \* the names in this.tools
  biLast,            \* the outcome of the last executeTool
  effects,           \* history: what the handlers did to the world
  \* MCPClient.connect, step by step, under connectServer and testServerConnection
  cpc,               \* where the call in flight is
  inflight,          \* the call in flight and the MCPClient it built
  held,              \* name -> the MCPClient the manager holds in this.servers
  cservers,          \* the names in this.servers
  cowned,            \* the names that own entries of this.tools
  leaked,            \* child processes alive whose MCPClient nobody references
  attempts,          \* how many calls were made (bounded)
  clast,             \* the outcome of the last call
  \* LLMProviderManager
  llm,               \* the module variable llmProviderManager of api.js
  pmLast,            \* the outcome of the last initialize / switchProvider
  llmSaved,          \* the provider preference the /provider command saved to disk
  dispatched         \* history: the path the last getClaudeResponse took

pcVars == <<pcache, file, now, ticks, lastOp, addedAt, builtAfter, askSnap, remembered>>

orchVars == <<cfg, pc, round, messages, stream, sent, partialLine, lines, toolUseBlocks,
              currentToolUse, assistantResponse, usedTools, fullResponse, toolExecuted,
              pending, deltas, finalized, callSeq, starts, approvals, declined, executed,
              requests>>

olVars == <<response, received, buffer, yielded, reading>>

mcpVars == <<mcpConfig, diskConfig, servers, host, toolMap, serverStatus, disabledServers,
             initialized, mpc, todo, results, diff, lastCall, commands>>

biVars == <<biTools, biLast, effects>>

connVars == <<cpc, inflight, held, cservers, cowned, leaked, attempts, clast>>

provVars == <<llm, pmLast, llmSaved, dispatched>>

extVars == <<biVars, connVars, provVars>>

vars == <<pcVars, orchVars, olVars, mcpVars, extVars>>

(***************************************************************************)
(* Texts                                                                   *)
(***************************************************************************)
RECURSIVE Concat(_)
\* Array.prototype.join('') of a sequence of texts
Concat(ts) == IF ts = <<>> THEN <<>> ELSE Head(ts) \o Concat(Tail(ts))

RECURSIVE SplitOn(_, _)
\* String.prototype.split(sep) for a one-symbol separator: always at least one part
SplitOn(text, sep) ==
  IF \A i \in 1..Len(text) : text[i] # sep
    THEN <<text>>
    ELSE LET i == CHOOSE j \in 1..Len(text) :
                    text[j] = sep /\ \A k \in 1..(j - 1) : text[k] # sep
         IN  <<SubSeq(text, 1, i - 1)>> \o SplitOn(SubSeq(text, i + 1, Len(text)), sep)

(***************************************************************************)
(* JSON values, as JSON.parse builds them.  An object keeps its            *)
(* properties in insertion order, as a JavaScript object does.             *)
(***************************************************************************)
Undefined == [t |-> "undefined"]
Str(s) == [t |-> "str", s |-> s]
Obj(kv) == [t |-> "obj", kv |-> kv]
Arr(items) == [t |-> "arr", items |-> items]
KV(k, v) == [k |-> k, v |-> v]

\* obj[k]
Get(obj, k) ==
  IF obj.t = "obj" /\ \E i \in 1..Len(obj.kv) : obj.kv[i].k = k
    THEN obj.kv[CHOOSE i \in 1..Len(obj.kv) : obj.kv[i].k = k].v
    ELSE Undefined

\* ToBoolean: undefined and the empty string are falsy, objects and arrays truthy
Truthy(v) == CASE v.t = "undefined" -> FALSE
               [] v.t = "str" -> v.s # <<>>
               [] OTHER -> TRUE

\* the property names the model uses, in the order Array.prototype.sort() gives
KeyOrder == <<"a", "b", "command", "content", "cwd", "directory", "path">>
KeyRank(k) == CHOOSE i \in 1..Len(KeyOrder) : KeyOrder[i] = k

RECURSIVE SortKeys(_)
\* Object.keys(obj).sort(), given the set of keys
SortKeys(S) ==
  IF S = {} THEN <<>>
  ELSE LET m == CHOOSE k \in S : \A o \in S : KeyRank(k) <= KeyRank(o)
       IN  <<m>> \o SortKeys(S \ {m})

\* (variant: arrays returned as they are, their items not sorted)
sortObjectArraysAsIs(obj) ==
  CASE obj.t = "obj" ->
         LET ks == SortKeys({obj.kv[i].k : i \in 1..Len(obj.kv)})
         IN  Obj([i \in 1..Len(ks) |-> KV(ks[i], Get(obj, ks[i]))])
    [] OTHER -> obj

RECURSIVE sortObject(_)
sortObject(obj) ==
  CASE obj.t = "arr" ->
         Arr([i \in 1..Len(obj.items) |-> sortObject(obj.items[i])])
    [] obj.t = "obj" ->
         LET ks == SortKeys({obj.kv[i].k : i \in 1..Len(obj.kv)})
         IN  Obj([i \in 1..Len(ks) |-> KV(ks[i], sortObject(Get(obj, ks[i])))])
    [] OTHER -> obj

RECURSIVE JSONstringify(_)
JSONstringify(v) ==
  CASE v.t = "str" -> <<"\"">> \o v.s \o <<"\"">>
    [] v.t = "arr" ->
         <<"[">> \o Concat([i \in 1..Len(v.items) |->
                     (IF i > 1 THEN <<",">> ELSE <<>>) \o JSONstringify(v.items[i])])
                 \o <<"]">>
    [] v.t = "obj" ->
         <<"{">> \o Concat([i \in 1..Len(v.kv) |->
                     (IF i > 1 THEN <<",">> ELSE <<>>)
                       \o <<"\"", v.kv[i].k, "\"", ":">> \o JSONstringify(v.kv[i].v)])
                 \o <<"}">>
    [] OTHER -> <<"null">>

\* `${v}` for the values the model passes: a string is itself
TemplateString(v) == IF v.t = "str" THEN v.s ELSE <<"[object]">>

\* crypto.createHash('sha256').update(text).digest('hex').substring(0, 16):
\* the digest is taken to be collision-free on the texts of the model
sha256hex16(text) == <<"sha256(">> \o text \o <<")">>

(***************************************************************************)
(* PermissionCache                                                         *)
(***************************************************************************)
\* expirationTime, 24 hours in milliseconds
TTL == 86400000

NoFile == [exists |-> FALSE]

\* Date.prototype.toISOString(): the date and time to the millisecond
toISOString(ms) == [sec |-> ms \div 1000, msec |-> ms % 1000]
\* new Date(isoString).getTime()
getTime(iso) == iso.sec * 1000 + iso.msec

generateKeyFallThrough(toolName, input) ==
  <<toolName, ":">> \o sha256hex16(JSONstringify(sortObject(input)))

\* (variant: no narrow key for file_write)
generateKeyNoPathKey(toolName, input) ==
  IF toolName = "shell_execute" /\ Truthy(Get(input, "command"))
    THEN <<toolName, ":", "cmd", ":">> \o sha256hex16(Get(input, "command").s)
  ELSE generateKeyFallThrough(toolName, input)

generateKey(toolName, input) ==
  IF toolName = "file_write" /\ Truthy(Get(input, "path"))
    THEN <<toolName, ":">> \o TemplateString(Get(input, "path"))
  ELSE IF toolName = "shell_execute" /\ Truthy(Get(input, "command"))
    THEN <<toolName, ":", "cmd", ":">> \o sha256hex16(Get(input, "command").s)
  ELSE generateKeyFallThrough(toolName, input)

createSummary(toolName, input) ==
  IF toolName = "shell_execute"
    THEN LET cmd == IF Truthy(Get(input, "command")) THEN Get(input, "command").s ELSE <<>>
             parts == SplitOn(cmd, " ")
         IN  parts[1] \o (IF Len(parts) > 1 THEN <<"...">> ELSE <<>>)
  ELSE IF toolName = "file_write"
    THEN IF Truthy(Get(input, "path")) THEN Get(input, "path").s ELSE <<"unknown file">>
  ELSE <<"generic tool call">>

\* the cache loadCache() returns when there is no file
DefaultCache == [approvedTools |-> <<>>, session |-> [alwaysAsk |-> FALSE]]

\* approvedTools is kept as a sequence of [key, rec] entries, one per key
HasKey(c, key) == \E i \in 1..Len(c.approvedTools) : c.approvedTools[i].key = key
Lookup(c, key) ==
  c.approvedTools[CHOOSE i \in 1..Len(c.approvedTools) : c.approvedTools[i].key = key].rec
\* delete this.cache.approvedTools[key]
DeleteKey(c, key) ==
  [c EXCEPT !.approvedTools = SelectSeq(c.approvedTools, LAMBDA e : e.key # key)]
\* this.cache.approvedTools[key] = rec: an existing property keeps its place
PutKey(c, key, rec) ==
  IF HasKey(c, key)
    THEN [c EXCEPT !.approvedTools =
            [i \in 1..Len(c.approvedTools) |->
               IF c.approvedTools[i].key = key THEN [key |-> key, rec |-> rec]
               ELSE c.approvedTools[i]]]
    ELSE [c EXCEPT !.approvedTools = Append(c.approvedTools, [key |-> key, rec |-> rec])]

loadCache(f) == IF f.exists THEN f.data ELSE DefaultCache
\* fs.writeFileSync(this.cacheFile, JSON.stringify(this.cache)); the write is taken to succeed
saveCache(c) == [exists |-> TRUE, data |-> c]

\* (variant: the expiration time taken in seconds, 24 * 60 * 60)
ExpiredInSeconds(rec, t) == t - getTime(rec.timestamp) > TTL \div 1000

\* approvalAge > expirationTime
Expired(rec, t) == t - getTime(rec.timestamp) > TTL

\* (variant: the always-ask check left out)
isApprovedNoAlwaysAsk(c, toolName, input, t) ==
  LET key == generateKey(toolName, input) IN
    IF ~HasKey(c, key)
      THEN [ret |-> FALSE, cache |-> c, saved |-> FALSE]
    ELSE IF Expired(Lookup(c, key), t)
      THEN [ret |-> FALSE, cache |-> DeleteKey(c, key), saved |-> TRUE]
    ELSE [ret |-> TRUE, cache |-> c, saved |-> FALSE]

\* isApproved: [ret, cache, saved]
isApproved(c, toolName, input, t) ==
  IF c.session.alwaysAsk
    THEN [ret |-> FALSE, cache |-> c, saved |-> FALSE]
  ELSE LET key == generateKey(toolName, input) IN
    IF ~HasKey(c, key)
      THEN [ret |-> FALSE, cache |-> c, saved |-> FALSE]
    ELSE IF Expired(Lookup(c, key), t)
      THEN [ret |-> FALSE, cache |-> DeleteKey(c, key), saved |-> TRUE]
    ELSE [ret |-> TRUE, cache |-> c, saved |-> FALSE]

\* (variant: the rememberChoice test left out)
addApprovalAlways(c, toolName, input, rememberChoice, t) ==
  [cache |-> PutKey(c, generateKey(toolName, input),
                    [toolName |-> toolName,
                     timestamp |-> toISOString(t),
                     summary |-> createSummary(toolName, input)]),
   saved |-> TRUE]

\* (variant: the approval is kept in memory and not written to the file)
addApprovalUnsaved(c, toolName, input, rememberChoice, t) ==
  IF ~rememberChoice
    THEN [cache |-> c, saved |-> FALSE]
    ELSE [cache |-> PutKey(c, generateKey(toolName, input),
                           [toolName |-> toolName,
                            timestamp |-> toISOString(t),
                            summary |-> createSummary(toolName, input)]),
          saved |-> FALSE]

\* addApproval: [cache, saved]
addApproval(c, toolName, input, rememberChoice, t) ==
  IF ~rememberChoice
    THEN [cache |-> c, saved |-> FALSE]
    ELSE [cache |-> PutKey(c, generateKey(toolName, input),
                           [toolName |-> toolName,
                            timestamp |-> toISOString(t),
                            summary |-> createSummary(toolName, input)]),
          saved |-> TRUE]

clearCache(c) == [c EXCEPT !.approvedTools = <<>>]

setAlwaysAsk(c, enabled) == [c EXCEPT !.session.alwaysAsk = enabled]

(***************************************************************************)
(* The calls the model makes                                               *)
(***************************************************************************)
Call(name, input) == [name |-> name, input |-> input]

WriteA == Call("file_write", Obj(<<KV("path", Str(<<"/a">>)), KV("content", Str(<<"A">>))>>))
ListTmp == Call("file_list", Obj(<<KV("directory", Str(<<"/tmp">>))>>))

\* the calls of the permission-cache specification
PCCalls == {WriteA, ListTmp}
PCKeys == {generateKey(c.name, c.input) : c \in PCCalls}

\* "cmd": the instance CommandService builds; "req": the one getClaudeResponse builds
Instances == {"cmd", "req"}

\* bound on the number of clock advances
MaxTicks == 3
\* the clock advances by a millisecond or by a millisecond less than the TTL
TickSteps == {1, TTL - 1}

NoSnap == [valid |-> FALSE, yes |-> {}]
Op(op, inst, call, flag, ret) ==
  [op |-> op, inst |-> inst, call |-> call, flag |-> flag, ret |-> ret]

\* currentToolUse = null
NoTool == [open |-> FALSE, id |-> "", name |-> "", input |-> <<>>]

\* before getClaudeResponse is called
InitOrch ==
  /\ cfg = [cli |-> FALSE, mcp |-> FALSE, tools |-> FALSE, local |-> FALSE]
  /\ pc = "idle"
  /\ round = 0
  /\ messages = <<>>
  /\ stream = <<>>
  /\ sent = 0
  /\ partialLine = <<>>
  /\ lines = <<>>
  /\ toolUseBlocks = <<>>
  /\ currentToolUse = NoTool
  /\ assistantResponse = <<>>
  /\ usedTools = FALSE
  /\ fullResponse = <<>>
  /\ toolExecuted = FALSE
  /\ pending = <<>>
  /\ deltas = <<>>
  /\ finalized = <<>>
  /\ callSeq = 0
  /\ starts = 0
  /\ approvals = {}
  /\ declined = {}
  /\ executed = <<>>
  /\ requests = <<>>

\* before streamResponse is called
(***************************************************************************)
(* MCPManager (src/unnamed/part_004:1-318), MCPClient                      *)
(* (src/src/mcp/BuiltInServer.js:271-421) and the /mcp commands            *)
(* (src/src/services/CommandService.js): the data                          *)
(***************************************************************************)
\* the calls and events of one session
MaxCommands == 4

\* the host names of the configurations, in the key order of mcp.json; the entry
\* 'builtin', served in-process by BuiltInServer without a child process, is left out
Hosts == {"A", "B", "C"}
HostOrder == <<"A", "B", "C">>

\* a configuration entry: what connectServer and MCPClient.connect look at
Entry(transport, command, url, enabled) ==
  [transport |-> transport, command |-> command, url |-> url, enabled |-> enabled]
\* no key of that name
NoEntry == Entry("none", FALSE, FALSE, TRUE)
\* { command, args, transport: 'stdio' }
StdioEntry == Entry("stdio", TRUE, FALSE, TRUE)
\* { transport: 'sse', url, headers }
SseEntry == Entry("sse", FALSE, TRUE, TRUE)
\* { transport: 'websocket', url }
WebSocketEntry == Entry("websocket", FALSE, TRUE, TRUE)
\* { command, args, enabled: false }
OffEntry == Entry("stdio", TRUE, FALSE, FALSE)

Entries == {StdioEntry, SseEntry, WebSocketEntry, OffEntry}

ServersOf(a, b, c) == [n \in Hosts |-> CASE n = "A" -> a [] n = "B" -> b [] OTHER -> c]

\* the configurations mcp.json can hold
ConfigFiles == {ServersOf(StdioEntry, StdioEntry, NoEntry),
                ServersOf(StdioEntry, NoEntry, StdioEntry),
                ServersOf(StdioEntry, SseEntry, OffEntry)}

\* Object.keys(config.servers)
KeysOf(config) == SelectSeq(HostOrder, LAMBDA n : config[n] # NoEntry)

\* the tools each host declares: A and B both declare t
ToolNames == {"t", "a", "c"}
DeclaredTools(n) == CASE n = "A" -> {"t", "a"} [] n = "B" -> {"t"} [] OTHER -> {"c"}

\* an MCPClient: this.connected, the names in this.tools, and its child process
HostState(connected, hostTools, process) ==
  [connected |-> connected, tools |-> hostTools, process |-> process]
FreshHost == HostState(FALSE, {}, "none")

NoStatus == [set |-> FALSE, connected |-> FALSE, disabled |-> FALSE, error |-> "null"]
Status(connected, disabled, error) ==
  [set |-> TRUE, connected |-> connected, disabled |-> disabled, error |-> error]

NoResults == [success |-> 0, failed |-> 0, errors |-> <<>>]
NoDiff == [added |-> <<>>, removed |-> <<>>, existing |-> <<>>]

\* the outcome of a call: returned or thrown value, the hosts whose executeTool was
\* called, the events emitted
Ret(op, arg, kind, value, count, calls, events) ==
  [op |-> op, arg |-> arg, kind |-> kind, value |-> value, count |-> count,
   calls |-> calls, events |-> events]

\* new ConfigService(), new MCPManager(configService)
InitMCP ==
  /\ diskConfig = ServersOf(StdioEntry, StdioEntry, NoEntry)
  /\ mcpConfig = diskConfig
  /\ servers = <<>>
  /\ host = [n \in Hosts |-> FreshHost]
  /\ toolMap = [t \in ToolNames |-> "none"]
  /\ serverStatus = [n \in Hosts |-> NoStatus]
  /\ disabledServers = {}
  /\ initialized = FALSE
  /\ mpc = "idle"
  /\ todo = <<>>
  /\ results = NoResults
  /\ diff = NoDiff
  /\ lastCall = Ret("new", "", "return", [from |-> "", text |-> ""], 0, <<>>, {})
  /\ commands = 0

(***************************************************************************)
(* BuiltInServer (src/src/mcp/BuiltInServer.js:9-266): the data            *)
(***************************************************************************)
\* the tools of the default configuration
BuiltInTools == {"file_read", "file_write", "shell_execute", "web_request"}

\* the arguments of a call: for each property "absent", "str" (a string), "num" (a
\* number) or, for method, the string itself
Args(path, content, command, cwd, url, method) ==
  [path |-> path, content |-> content, command |-> command, cwd |-> cwd, url |-> url,
   method |-> method]
NoArgs == Args("absent", "absent", "absent", "absent", "absent", "absent")

\* the calls made to each tool
ArgsFor(tool) ==
  CASE tool = "file_read" ->
         {[NoArgs EXCEPT !.path = v] : v \in {"absent", "str", "num"}}
    [] tool = "file_write" ->
         {[NoArgs EXCEPT !.path = v, !.content = w] :
            v \in {"absent", "str"}, w \in {"absent", "str"}}
    [] tool = "shell_execute" ->
         {[NoArgs EXCEPT !.command = v, !.cwd = w] :
            v \in {"absent", "str", "num"}, w \in {"absent", "str"}}
    [] OTHER ->
         {[NoArgs EXCEPT !.url = v, !.method = w] :
            v \in {"absent", "str"}, w \in {"absent", "num", "GET", "DELETE", "PATCH"}}

\* inputSchema: the required properties, the properties declared as strings, and the
\* enum of web_request.method
Required(tool) ==
  CASE tool = "file_read" -> {"path"}
    [] tool = "file_write" -> {"path", "content"}
    [] tool = "shell_execute" -> {"command"}
    [] OTHER -> {"url"}
StringProps(tool) ==
  CASE tool = "file_read" -> {"path"}
    [] tool = "file_write" -> {"path", "content"}
    [] tool = "shell_execute" -> {"command", "cwd"}
    [] OTHER -> {"url", "method"}
MethodEnum == {"GET", "POST", "PUT", "DELETE"}

\* args satisfies the inputSchema of tool
Valid(tool, args) ==
  /\ \A prop \in Required(tool) : args[prop] # "absent"
  /\ \A prop \in StringProps(tool) : args[prop] # "num"
  /\ (tool = "web_request" /\ args.method # "absent") => args.method \in MethodEnum

\* how the world answers the operation a handler starts: it succeeds, it fails (read or
\* write error, command with a non-zero exit, no HTTP response), or the HTTP server
\* answers with an error status
Worlds == {"ok", "fail", "status"}

\* the outcome of executeTool: returned or thrown, the isError flag, whether the value
\* has an error field (or is an Error), whether the handler was called, whether the
\* operation the handler started failed
Outcome(kind, isError, error, handler, failed) ==
  [kind |-> kind, isError |-> isError, error |-> error, handler |-> handler,
   failed |-> failed]
NoOutcome == Outcome("none", FALSE, FALSE, FALSE, FALSE)

InitBuiltIn ==
  /\ biTools = {}
  /\ biLast = NoOutcome
  /\ effects = {}

\* the bound on the calls of one run of the connect model
MaxAttempts == 3

\* the server names of the connect model
Clients == {"A", "B"}

\* an MCPClient: this.connected, whether this.tools is filled, whether this.client is
\* set, and its child process ("none", "running", "dead")
McpClient(connected, listed, client, process) ==
  [connected |-> connected, listed |-> listed, client |-> client, process |-> process]
NoClient == McpClient(FALSE, FALSE, FALSE, "none")

InFlight(op, name, client) == [op |-> op, name |-> name, client |-> client]
NoCall == InFlight("none", "none", NoClient)

\* how a call ended: returned or thrown, testServerConnection's success flag, and the
\* step at which it ended
Ended(op, name, kind, success, stage) ==
  [op |-> op, name |-> name, kind |-> kind, success |-> success, stage |-> stage]

InitConn ==
  /\ cpc = "idle"
  /\ inflight = NoCall
  /\ held = [n \in Clients |-> NoClient]
  /\ cservers = {}
  /\ cowned = {}
  /\ leaked = 0
  /\ attempts = 0
  /\ clast = Ended("none", "none", "return", FALSE, "none")

\* an LLMProviderManager: this.providerType, the class of this.provider, whether its
\* model is loaded, this.config.provider
ProviderManager(providerType, provider, loaded, config) ==
  [providerType |-> providerType, provider |-> provider, loaded |-> loaded,
   config |-> config]
\* the manager after its constructor
NewManager == ProviderManager("null", "null", FALSE, "none")
\* llmProviderManager before initializeLLMProvider
NoManager == ProviderManager("undefined", "null", FALSE, "none")

InitProv ==
  /\ llm = NoManager
  /\ pmLast = [op |-> "none", arg |-> "none", kind |-> "return"]
  /\ llmSaved = "none"
  /\ dispatched = "none"

InitExt == InitBuiltIn /\ InitConn /\ InitProv

InitOllama ==
  /\ response = <<>>
  /\ received = 0
  /\ buffer = <<>>
  /\ yielded = <<>>
  /\ reading = "idle"

InitPC ==
  /\ InitOrch
  /\ InitOllama
  /\ InitMCP
  /\ InitExt
  /\ file = NoFile
  /\ pcache = [i \in Instances |-> loadCache(NoFile)]
  /\ now = 0
  /\ ticks = 0
  /\ lastOp = Op("construct", "cmd", WriteA, FALSE, FALSE)
  /\ addedAt = [k \in PCKeys |-> -1]
  /\ builtAfter = [i \in Instances |-> {}]
  /\ askSnap = [i \in Instances |-> NoSnap]
  /\ remembered = {}

\* new PermissionCache(): this.cache = this.loadCache()
CacheConstruct(i) ==
  /\ pcache' = [pcache EXCEPT ![i] = loadCache(file)]
  /\ lastOp' = Op("construct", i, WriteA, FALSE, FALSE)
  /\ builtAfter' = [builtAfter EXCEPT ![i] = {k \in DOMAIN addedAt : addedAt[k] >= 0}]
  /\ askSnap' = [askSnap EXCEPT ![i] = NoSnap]
  /\ UNCHANGED <<file, now, ticks, addedAt, remembered>>

Construct(i) == CacheConstruct(i) /\ UNCHANGED <<orchVars, olVars, mcpVars, extVars>>

CacheIsApproved(i, c) ==
  LET r == isApproved(pcache[i], c.name, c.input, now) IN
  /\ pcache' = [pcache EXCEPT ![i] = r.cache]
  /\ file' = IF r.saved THEN saveCache(r.cache) ELSE file
  /\ lastOp' = Op("isApproved", i, c, FALSE, r.ret)
  /\ UNCHANGED <<now, ticks, addedAt, builtAfter, askSnap, remembered>>

IsApproved(i, c) == CacheIsApproved(i, c) /\ UNCHANGED <<orchVars, olVars, mcpVars, extVars>>

CacheAddApproval(i, c, rememberChoice) ==
  LET r == addApproval(pcache[i], c.name, c.input, rememberChoice, now)
      key == generateKey(c.name, c.input) IN
  /\ pcache' = [pcache EXCEPT ![i] = r.cache]
  /\ file' = IF r.saved THEN saveCache(r.cache) ELSE file
  /\ lastOp' = Op("addApproval", i, c, rememberChoice, FALSE)
  /\ addedAt' = IF rememberChoice /\ key \in DOMAIN addedAt
                  THEN [addedAt EXCEPT ![key] = now] ELSE addedAt
  /\ builtAfter' = IF rememberChoice
                     THEN [j \in Instances |-> builtAfter[j] \ {key}] ELSE builtAfter
  /\ askSnap' = IF rememberChoice THEN [askSnap EXCEPT ![i] = NoSnap] ELSE askSnap
  /\ remembered' = IF rememberChoice THEN remembered \cup {c} ELSE remembered
  /\ UNCHANGED <<now, ticks>>

AddApproval(i, c, rememberChoice) == CacheAddApproval(i, c, rememberChoice) /\ UNCHANGED <<orchVars, olVars, mcpVars, extVars>>

ClearCache(i) ==
  /\ pcache' = [pcache EXCEPT ![i] = clearCache(pcache[i])]
  /\ file' = saveCache(pcache'[i])
  /\ lastOp' = Op("clearCache", i, WriteA, FALSE, FALSE)
  /\ addedAt' = [k \in DOMAIN addedAt |-> -1]
  /\ builtAfter' = [j \in Instances |-> {}]
  /\ askSnap' = [askSnap EXCEPT ![i] = NoSnap]
  /\ remembered' = {}
  /\ UNCHANGED <<now, ticks>>
  /\ UNCHANGED <<orchVars, olVars, mcpVars, extVars>>

SetAlwaysAsk(i, enabled) ==
  /\ pcache' = [pcache EXCEPT ![i] = setAlwaysAsk(pcache[i], enabled)]
  /\ file' = saveCache(pcache'[i])
  /\ lastOp' = Op("setAlwaysAsk", i, WriteA, enabled, FALSE)
  /\ askSnap' = IF enabled /\ ~pcache[i].session.alwaysAsk
                  THEN [askSnap EXCEPT ![i] =
                          [valid |-> TRUE,
                           yes |-> {[call |-> c, at |-> addedAt[generateKey(c.name, c.input)]] :
                                      c \in {d \in PCCalls :
                                        isApproved(pcache[i], d.name, d.input, now).ret}}]]
                  ELSE askSnap
  /\ UNCHANGED <<now, ticks, addedAt, builtAfter, remembered>>
  /\ UNCHANGED <<orchVars, olVars, mcpVars, extVars>>

\* time passes
Tick(d) ==
  /\ ticks < MaxTicks
  /\ now' = now + d
  /\ ticks' = ticks + 1
  /\ lastOp' = Op("tick", "cmd", WriteA, FALSE, FALSE)
  /\ UNCHANGED <<pcache, file, addedAt, builtAfter, askSnap, remembered>>
  /\ UNCHANGED <<orchVars, olVars, mcpVars, extVars>>

NextPC ==
  \/ Construct("req")
  \/ \E c \in PCCalls : IsApproved("req", c)
  \/ \E c \in PCCalls, r \in BOOLEAN : AddApproval("req", c, r)
  \/ ClearCache("req")
  \/ \E b \in BOOLEAN : SetAlwaysAsk("req", b)
  \/ \E d \in TickSteps : Tick(d)

\* the PermissionCache interface of one instance, driven by any sequence of calls
SpecPC == InitPC /\ [][NextPC]_vars

\* CommandService's /permissions commands (CommandService.js:217-232) on its own instance
CmdClear == ClearCache("cmd")
CmdAlways(enabled) == SetAlwaysAsk("cmd", enabled)

NextPersist ==
  \/ Construct("req")
  \/ \E c \in PCCalls : IsApproved("req", c)
  \/ \E c \in PCCalls : AddApproval("req", c, TRUE)
  \/ CmdClear
  \/ \E b \in BOOLEAN : CmdAlways(b)

\* the two instances of one process: the long-lived one of CommandService and the
\* one getClaudeResponse constructs for each request, used as the program uses them
SpecPersist == InitPC /\ [][NextPersist]_vars

(***************************************************************************)
(* Properties of the permission cache                                      *)
(***************************************************************************)
KeyOf(c) == generateKey(c.name, c.input)
AlwaysAskOn(i) == pcache[i].session.alwaysAsk

\* C3: isApproved returns false whenever always-ask is on, whatever is stored;
\* setAlwaysAsk(true) deletes nothing, so once always-ask is off again isApproved
\* answers as it did when always-ask was turned on, for the approvals that are
\* still within the TTL.
C3_AlwaysAskOverridesAndRestores ==
  /\ \A i \in Instances, c \in PCCalls :
       AlwaysAskOn(i) => ~isApproved(pcache[i], c.name, c.input, now).ret
  /\ (lastOp.op = "isApproved" /\ AlwaysAskOn(lastOp.inst)) => ~lastOp.ret
  /\ \A i \in Instances, c \in PCCalls :
       (askSnap[i].valid /\ ~AlwaysAskOn(i)) =>
          (isApproved(pcache[i], c.name, c.input, now).ret
             <=> \E e \in askSnap[i].yes : e.call = c /\ now - e.at <= TTL)

\* C3 witness: an approval stored before always-ask was turned on is reported
\* again by isApproved after always-ask was turned off.
C3_Witness ==
  /\ askSnap["req"].valid
  /\ ~AlwaysAskOn("req")
  /\ lastOp.op = "isApproved" /\ lastOp.inst = "req" /\ lastOp.ret
  /\ \E e \in askSnap["req"].yes : e.call = lastOp.call

\* C4: with always-ask off, isApproved on a record stored at time T returns true
\* before T + TTL (in particular at T + TTL - 1) and leaves the record alone; after
\* T + TTL (in particular at T + TTL + 1) it returns false and the record is gone
\* from the in-memory map and from the file.  A record leaves the in-memory map
\* only through such a lookup, through clearCache, or when the instance is rebuilt.
C4_LazyExpiry ==
  [][ LET i == lastOp'.inst
          key == KeyOf(lastOp'.call)
          T == addedAt[key]
      IN  /\ (/\ lastOp'.op = "isApproved"
              /\ ~AlwaysAskOn(i)
              /\ HasKey(pcache[i], key)
              /\ T >= 0) =>
                /\ now < T + TTL =>
                     /\ lastOp'.ret
                     /\ HasKey(pcache'[i], key)
                     /\ file' = file
                /\ now > T + TTL =>
                     /\ ~lastOp'.ret
                     /\ ~HasKey(pcache'[i], key)
                     /\ file'.exists /\ ~HasKey(file'.data, key)
          /\ \A j \in Instances, k \in PCKeys :
               (HasKey(pcache[j], k) /\ ~HasKey(pcache'[j], k)) =>
                  \/ lastOp'.op \in {"clearCache", "construct"}
                  \/ /\ lastOp'.op = "isApproved" /\ i = j /\ key = k
                     /\ now > addedAt[k] + TTL ]_vars

\* C4 witness: a lookup one millisecond after the TTL has returned false and purged
\* the record from memory and file.
C4_Witness ==
  LET key == KeyOf(lastOp.call) IN
  /\ lastOp.op = "isApproved" /\ ~lastOp.ret
  /\ ~AlwaysAskOn(lastOp.inst)
  /\ addedAt[key] >= 0 /\ now = addedAt[key] + TTL + 1
  /\ ~HasKey(pcache[lastOp.inst], key)
  /\ file.exists /\ ~HasKey(file.data, key)

\* C5: an approval remembered by addApproval(.., true) is reported by isApproved of
\* every instance constructed afterwards, while it is within the TTL, always-ask
\* is off and clearCache has not been called.
C5_SurvivesRestart ==
  LET key == KeyOf(lastOp.call) IN
  (/\ lastOp.op = "isApproved"
   /\ key \in builtAfter[lastOp.inst]
   /\ addedAt[key] >= 0
   /\ now - addedAt[key] <= TTL
   /\ ~AlwaysAskOn(lastOp.inst)) => lastOp.ret

\* C6: addApproval with remember = false changes neither the in-memory map nor the
\* file, and isApproved answers for every call as it did before.
C6_NoRememberIsNoOp ==
  [][ (lastOp'.op = "addApproval" /\ ~lastOp'.flag) =>
        /\ pcache' = pcache
        /\ file' = file
        /\ \A i \in Instances, c \in PCCalls :
             isApproved(pcache'[i], c.name, c.input, now').ret
               = isApproved(pcache[i], c.name, c.input, now).ret ]_vars

\* C6 witness: addApproval(.., false) was called for a call that is not approved,
\* while another approval is stored.
C6_Witness ==
  /\ lastOp.op = "addApproval" /\ ~lastOp.flag
  /\ ~HasKey(pcache[lastOp.inst], KeyOf(lastOp.call))
  /\ Len(pcache[lastOp.inst].approvedTools) = 1
  /\ file.exists /\ file.data = pcache[lastOp.inst]

(***************************************************************************)
(* The permission key, on a range of inputs                                *)
(***************************************************************************)
Atoms == {Str(<<"x">>), Str(<<"y">>)}
\* objects with the keys a and b in either order
TwoKeyObjs(A, B) ==
  {Obj(<<KV("a", va), KV("b", vb)>>) : va \in A, vb \in B}
    \cup {Obj(<<KV("b", vb), KV("a", va)>>) : va \in A, vb \in B}
FlatObjs ==
  {Obj(<<>>)} \cup {Obj(<<KV(k, v)>>) : k \in {"a", "b"}, v \in Atoms} \cup TwoKeyObjs(Atoms, Atoms)
InnerObjs == TwoKeyObjs({Str(<<"x">>)}, Atoms)
GenericInputs ==
  FlatObjs
    \cup {Obj(<<KV("a", Arr(<<o>>))>>) : o \in InnerObjs}
    \cup TwoKeyObjs(InnerObjs, {Str(<<"x">>)})
    \cup {Obj(<<KV("a", Arr(<<Str(<<"x">>), Str(<<"y">>)>>))>>),
          Obj(<<KV("a", Arr(<<Str(<<"y">>), Str(<<"x">>)>>))>>)}
WriteInputs ==
  {Obj(<<KV("path", Str(p)), KV("content", Str(<<t>>))>>) :
     p \in {<<>>, <<"/a">>, <<"/b">>}, t \in {"A", "B"}}
ShellInputs ==
  {Obj(<<KV("command", Str(cmd)), KV("cwd", Str(<<d>>))>>) :
     cmd \in {<<>>, <<"ls">>, <<"rm", " ", "x">>}, d \in {"/x", "/y"}}
KeyCalls ==
  {Call("file_list", i) : i \in GenericInputs}
    \cup {Call("file_write", i) : i \in WriteInputs}
    \cup {Call("shell_execute", i) : i \in ShellInputs}

\* bound on the approvals stored in the key specification
MaxApprovals == 1

KeyApprove(c) ==
  /\ Len(pcache["req"].approvedTools) < MaxApprovals
  /\ AddApproval("req", c, TRUE)

KeyCheck(c) == IsApproved("req", c)

NextKey ==
  \/ \E c \in KeyCalls : KeyApprove(c)
  \/ \E c \in KeyCalls : KeyCheck(c)

\* addApproval(.., true) and isApproved of one instance over a range of inputs
SpecKey == InitPC /\ [][NextKey]_vars

RECURSIVE JsonEq(_, _)
\* the same JSON value: objects compared as sets of properties, arrays in order
JsonEq(v, w) ==
  /\ v.t = w.t
  /\ CASE v.t = "str" -> v.s = w.s
       [] v.t = "arr" ->
            /\ Len(v.items) = Len(w.items)
            /\ \A i \in 1..Len(v.items) : JsonEq(v.items[i], w.items[i])
       [] v.t = "obj" ->
            /\ {v.kv[i].k : i \in 1..Len(v.kv)} = {w.kv[i].k : i \in 1..Len(w.kv)}
            /\ \A i \in 1..Len(v.kv) : JsonEq(v.kv[i].v, Get(w, v.kv[i].k))
       [] OTHER -> TRUE

NarrowTools == {"file_write", "shell_execute"}

\* C7: for a tool other than file_write and shell_execute, isApproved reports an
\* approval exactly when one was remembered for the same tool and an input that is
\* the same JSON value up to the order of object keys at any depth.
C7_CanonicalKey ==
  (lastOp.op = "isApproved" /\ lastOp.call.name \notin NarrowTools) =>
     (lastOp.ret <=> \E r \in remembered :
                        r.name = lastOp.call.name /\ JsonEq(r.input, lastOp.call.input))

\* C7 witness: an approval remembered for one input is reported for another input
\* whose object, nested in an array, lists its keys in the other order.
C7_Witness ==
  /\ lastOp.op = "isApproved" /\ lastOp.ret
  /\ lastOp.call.name \notin NarrowTools
  /\ lastOp.call \notin remembered
  /\ Get(lastOp.call.input, "a").t = "arr"

\* C8, as stated: for file_write the approval depends only on input.path, for
\* shell_execute only on input.command.
C8_NarrowKeysAnyValue ==
  /\ (lastOp.op = "isApproved" /\ lastOp.call.name = "file_write") =>
       (lastOp.ret <=> \E r \in remembered :
                          /\ r.name = "file_write"
                          /\ Get(r.input, "path") = Get(lastOp.call.input, "path"))
  /\ (lastOp.op = "isApproved" /\ lastOp.call.name = "shell_execute") =>
       (lastOp.ret <=> \E r \in remembered :
                          /\ r.name = "shell_execute"
                          /\ Get(r.input, "command") = Get(lastOp.call.input, "command"))

\* the property a narrow tool is keyed by
NarrowProp(name) == IF name = "file_write" THEN "path" ELSE "command"

\* C8, amended: for file_write with a non-empty input.path the approval depends only
\* on the path, for shell_execute with a non-empty input.command only on the command;
\* with an empty or missing path or command the whole input decides, as for any
\* other tool.
C8_NarrowKeys ==
  (lastOp.op = "isApproved" /\ lastOp.call.name \in NarrowTools) =>
     LET c == lastOp.call
         prop == NarrowProp(c.name)
     IN  lastOp.ret <=>
           \E r \in remembered :
              /\ r.name = c.name
              /\ IF Get(c.input, prop).t = "str" /\ Get(c.input, prop).s # <<>>
                   THEN Get(r.input, prop) = Get(c.input, prop)
                   ELSE JsonEq(r.input, c.input)

\* C8 witness: a file_write approved for a path and one content is reported as
\* approved for the same path and another content.
C8_Witness ==
  /\ lastOp.op = "isApproved" /\ lastOp.ret
  /\ lastOp.call.name = "file_write"
  /\ lastOp.call \notin remembered

(***************************************************************************)
(* The stream of getClaudeResponse: records, lines and their parsing       *)
(***************************************************************************)
IsSpace(ch) == ch \in {" ", "\n", "\r", "\t"}

RECURSIVE TrimStart(_)
TrimStart(text) ==
  IF text # <<>> /\ IsSpace(Head(text)) THEN TrimStart(Tail(text)) ELSE text

RECURSIVE TrimEnd(_)
TrimEnd(text) ==
  IF text # <<>> /\ IsSpace(text[Len(text)])
    THEN TrimEnd(SubSeq(text, 1, Len(text) - 1)) ELSE text

\* String.prototype.trim
Trim(text) == TrimEnd(TrimStart(text))

\* line.startsWith('data: ')
StartsWithData(line) == Len(line) >= 2 /\ line[1] = "data:" /\ line[2] = " "

\* The bytes of a response body: a symbol stands for a run of ASCII bytes, and the
\* character e-acute is the two bytes C3 A9.
LeadByte == "xC3"
ContByte == "xA9"
EAcute == "e-acute"
Replacement == "uFFFD"

\* chunk.toString('utf8'): every byte that is not part of a complete sequence within
\* this chunk becomes U+FFFD
toString(chunk) ==
  LET Gone == ""
      At(i) == IF chunk[i] = LeadByte
                 THEN IF i < Len(chunk) /\ chunk[i + 1] = ContByte THEN EAcute ELSE Replacement
               ELSE IF chunk[i] = ContByte
                 THEN IF i > 1 /\ chunk[i - 1] = LeadByte THEN Gone ELSE Replacement
               ELSE chunk[i]
      Kept(x) == x # Gone
  IN  SelectSeq([i \in 1..Len(chunk) |-> At(i)], Kept)

\* JSON.parse of the accumulated arguments of a tool call: objects and strings.
\* A result is [ok, val, rest]; rest is what follows the value parsed.
ParseFail == [ok |-> FALSE, val |-> Undefined, rest |-> <<>>]

\* a string: "\"" symbols "\""
ParseString(toks) ==
  IF Len(toks) >= 2 /\ toks[1] = "\"" /\ \E j \in 2..Len(toks) : toks[j] = "\""
    THEN LET j == CHOOSE k \in 2..Len(toks) :
                      toks[k] = "\"" /\ \A m \in 2..(k - 1) : toks[m] # "\""
         IN  [ok |-> TRUE, val |-> Str(SubSeq(toks, 2, j - 1)),
              rest |-> SubSeq(toks, j + 1, Len(toks))]
    ELSE ParseFail

RECURSIVE ParseValue(_)
RECURSIVE ParseMembers(_, _)
\* the members of an object after "{" or ",": key ":" value, then "," or "}"
ParseMembers(toks, acc) ==
  LET k == ParseString(toks) IN
  IF ~k.ok \/ Len(k.val.s) # 1 \/ k.rest = <<>> \/ Head(k.rest) # ":"
    THEN ParseFail
    ELSE LET v == ParseValue(Tail(k.rest)) IN
         IF ~v.ok \/ v.rest = <<>> THEN ParseFail
         ELSE LET acc2 == Append(acc, KV(k.val.s[1], v.val)) IN
              IF Head(v.rest) = "}" THEN [ok |-> TRUE, val |-> Obj(acc2), rest |-> Tail(v.rest)]
              ELSE IF Head(v.rest) = "," THEN ParseMembers(Tail(v.rest), acc2)
              ELSE ParseFail

ParseValue(toks) ==
  IF toks = <<>> THEN ParseFail
  ELSE IF Head(toks) = "\"" THEN ParseString(toks)
  ELSE IF Head(toks) = "{"
    THEN IF Len(toks) >= 2 /\ toks[2] = "}"
           THEN [ok |-> TRUE, val |-> Obj(<<>>), rest |-> SubSeq(toks, 3, Len(toks))]
           ELSE ParseMembers(Tail(toks), <<>>)
  ELSE ParseFail

\* JSON.parse(text): [ok, val]
JSONparse(text) ==
  LET r == ParseValue(text) IN
  IF r.ok /\ r.rest = <<>> THEN [ok |-> TRUE, val |-> r.val] ELSE [ok |-> FALSE, val |-> Undefined]

\* The records of a stream.  The payload of a record is written as a body and "}",
\* so that a cut can fall inside it; JSON.parse accepts the payload exactly when both
\* are there.  The body T3 ends inside the text of a text delta: what lies between
\* it and "}" is the rest of that text.  The body J ends inside the partial_json of
\* an input_json_delta: what lies between it and the last "}" is the fragment.
Ev(type, kind, id, name, text) ==
  [type |-> type, kind |-> kind, id |-> id, name |-> name, text |-> text]

BodyNames == {"T1", "T2", "T3", "J", "Bt", "B1", "B2", "B3", "J1a", "J1b", "J2", "J3", "Jbad", "E", "M", "P"}

\* JSON.parse(jsonData) of a record body
Decode(b) ==
  CASE b = "T1" -> Ev("content_block_delta", "text_delta", "", "", <<"I'll check.">>)
    [] b = "T2" -> Ev("content_block_delta", "text_delta", "", "", <<"Done.">>)
    [] b = "T3" -> Ev("content_block_delta", "text_delta", "", "", <<"caf">>)
    [] b = "Bt" -> Ev("content_block_start", "text", "", "", <<>>)
    [] b = "B1" -> Ev("content_block_start", "tool_use", "call1", "file_list", <<>>)
    [] b = "B2" -> Ev("content_block_start", "tool_use", "call2", "shell_execute", <<>>)
    [] b = "B3" -> Ev("content_block_start", "tool_use", "call3", "file_write", <<>>)
    [] b = "J" -> Ev("content_block_delta", "input_json_delta", "", "", <<>>)
    [] b = "J1a" -> Ev("content_block_delta", "input_json_delta", "", "",
                       <<"{", "\"", "directory", "\"", ":", "\"">>)
    [] b = "J1b" -> Ev("content_block_delta", "input_json_delta", "", "",
                       <<"/tmp", "\"", "}">>)
    [] b = "J2" -> Ev("content_block_delta", "input_json_delta", "", "",
                      <<"{", "\"", "command", "\"", ":", "\"", "ls", "\"", "}">>)
    [] b = "J3" -> Ev("content_block_delta", "input_json_delta", "", "",
                      <<"{", "\"", "path", "\"", ":", "\"", "/a", "\"", ",",
                        "\"", "content", "\"", ":", "\"", "A", "\"", "}">>)
    [] b = "Jbad" -> Ev("content_block_delta", "input_json_delta", "", "",
                        <<"{", "\"", "directory", "\"", ":">>)
    [] b = "E" -> Ev("content_block_stop", "", "", "", <<>>)
    [] b = "M" -> Ev("message_stop", "", "", "", <<>>)
    [] OTHER -> Ev("ping", "", "", "", <<>>)

Ignored == Ev("ignored", "", "", "", <<>>)

\* what the loop body makes of one line (api.js:115-122): the record, or Ignored for
\* a blank line, a line without the prefix, or a payload JSON.parse rejects
Classify(line) ==
  IF Trim(line) = <<>> THEN Ignored
  ELSE IF ~StartsWithData(line) THEN Ignored
  ELSE LET jsonData == Trim(SubSeq(line, 2, Len(line)))
           more == SubSeq(jsonData, 2, Len(jsonData) - 1) IN
       IF Len(jsonData) >= 2 /\ jsonData[1] \in BodyNames /\ jsonData[Len(jsonData)] = "}"
          /\ \/ more = <<>>
             \/ jsonData[1] = "T3" /\ \A i \in 1..Len(more) : more[i] \in {EAcute, Replacement}
             \/ jsonData[1] = "J"
         THEN [Decode(jsonData[1]) EXCEPT !.text = @ \o more]
         ELSE Ignored

DataLine(b) == <<"data:", " ", b, "}">>

RECURSIVE JoinLines(_)
\* the lines of a stream, each followed by a newline
JoinLines(ls) == IF ls = <<>> THEN <<>> ELSE Head(ls) \o <<"\n">> \o JoinLines(Tail(ls))

\* a stream: its lines, and whether the last one is followed by a newline
StreamText(ls, terminated) ==
  IF terminated \/ ls = <<>> THEN JoinLines(ls)
  ELSE JoinLines(SubSeq(ls, 1, Len(ls) - 1)) \o ls[Len(ls)]

Records(bs) == [i \in 1..Len(bs) |-> DataLine(bs[i])]

\* the streams the backend can send
StreamPlain == StreamText(Records(<<"T1", "M">>), TRUE)
StreamList == StreamText(Records(<<"T1", "B1", "J1a", "J1b", "E", "M">>), TRUE)
StreamTwo == StreamText(Records(<<"B2", "J2", "E", "B3", "J3", "E", "M">>), TRUE)
StreamLate == StreamText(Records(<<"T1", "M", "T2">>), TRUE)
StreamTail == StreamText(Records(<<"Bt", "T1", "E", "T2">>), FALSE)
StreamNoise ==
  StreamText(<<DataLine("P"), <<":", " ", "keep-alive">>, <<"data:", " ", "T1">>, <<>>,
               DataLine("T2"), DataLine("M")>>, TRUE)
StreamBadArgs == StreamText(Records(<<"B1", "Jbad", "E", "M">>), TRUE)
StreamOpen == StreamText(Records(<<"B2", "J2", "M">>), TRUE)
StreamBadThenGood == StreamText(Records(<<"B1", "Jbad", "E", "B2", "J2", "E", "M">>), TRUE)
StreamNoisyList ==
  StreamText(<<DataLine("T1"), DataLine("B1"), DataLine("J1a"), <<"data:", " ", "J1b">>,
               <<"event:", " ", "ping">>, DataLine("P"), DataLine("J1b"), DataLine("E"),
               DataLine("M")>>, TRUE)
StreamCutTail == StreamText(<<DataLine("T1"), <<"data:", " ", "T2">>>>, FALSE)
StreamAccent == StreamText(<<<<"data:", " ", "T3", LeadByte, ContByte, "}">>, DataLine("M")>>, TRUE)

\* text, then call1 file_list with the arguments {"path":"/tmp"} in two fragments
StreamPath ==
  StreamText(<<DataLine("T1"), DataLine("B1"),
               <<"data:", " ", "J", "{", "\"", "path", "\"", ":", "\"", "}">>,
               <<"data:", " ", "J", "/tmp", "\"", "}", "}">>,
               DataLine("E"), DataLine("M")>>, TRUE)

Streams == {StreamPlain, StreamList, StreamTwo, StreamLate, StreamTail, StreamNoise,
            StreamBadArgs, StreamOpen, StreamAccent, StreamNoisyList, StreamCutTail,
            StreamBadThenGood, StreamPath}

\* number of tool calls a stream starts
ToolStarts(text) ==
  LET ls == SplitOn(toString(text), "\n") IN
  Cardinality({i \in 1..Len(ls) :
     Classify(ls[i]).type = "content_block_start" /\ Classify(ls[i]).kind = "tool_use"})

(***************************************************************************)
(* getClaudeResponse (api.js:36-338)                                       *)
(***************************************************************************)
\* bound on the tool calls the backend starts in one conversation
MaxToolCalls == 2

Config(cli, mcp, tools, local) == [cli |-> cli, mcp |-> mcp, tools |-> tools, local |-> local]

\* how callers invoke getClaudeResponse: with tools, host manager and approval
\* interface; without the approval interface; without the host manager; with the
\* message and history only; and the first and last of these under a local provider
Configs == {Config(TRUE, TRUE, TRUE, FALSE), Config(FALSE, TRUE, TRUE, FALSE),
            Config(TRUE, FALSE, TRUE, FALSE), Config(FALSE, FALSE, FALSE, FALSE),
            Config(TRUE, TRUE, TRUE, TRUE), Config(FALSE, FALSE, FALSE, TRUE)}

Message(role, text, blocks) == [role |-> role, text |-> text, blocks |-> blocks]
UserMessage == Message("user", <<"list /tmp">>, <<>>)

ToolResult(isError, error, content) ==
  [isError |-> isError, error |-> error, text |-> <<>>, content |-> content]
\* (variant: the cancellation stored without the error flag)
CancelResultUnflagged == ToolResult(FALSE, <<"User cancelled the operation">>, <<>>)
\* { error: 'User cancelled the operation', isError: true }
CancelResult == ToolResult(TRUE, <<"User cancelled the operation">>, <<>>)
\* { error: error.message, isError: true }
ThrownResult == ToolResult(TRUE, <<"Tool execution failed">>, <<>>)
\* what a host returns: a result, or the error object of BuiltInServer.executeTool
HostResults == {ToolResult(FALSE, <<>>, <<"ok">>), ToolResult(TRUE, <<"ENOENT">>, <<>>)}

\* typeof result === 'string' ? result : result.text ? result.text : JSON.stringify(result, null, 2)
resultForApi(r) ==
  IF r.text # <<>> THEN r.text
  ELSE IF r.error # <<>>
    THEN <<"{", "\"", "error", "\"", ":", "\"">> \o r.error \o
         <<"\"", ",", "\"", "isError", "\"", ":", "true", "}">>
    ELSE <<"{", "\"", "content", "\"", ":", "\"">> \o r.content \o <<"\"">> \o
         (IF r.isError THEN <<",", "\"", "isError", "\"", ":", "true">> ELSE <<>>) \o <<"}">>

ToolBlock(tu, input, result) ==
  [type |-> "tool_use", id |-> tu.id, name |-> tu.name, input |-> input, result |-> result]

\* (variant: the assistant turn built without the accumulated text)
AssistantTurnBlocksOnly(text, blocks) ==
  Message("assistant", <<>>,
          [i \in 1..Len(blocks) |->
             [type |-> "tool_use", id |-> blocks[i].id, name |-> blocks[i].name,
              input |-> blocks[i].input]])

\* the assistant turn and the user turns pushed after a round with tool results
AssistantTurn(text, blocks) ==
  Message("assistant", IF Trim(text) # <<>> THEN text ELSE <<>>,
          [i \in 1..Len(blocks) |->
             [type |-> "tool_use", id |-> blocks[i].id, name |-> blocks[i].name,
              input |-> blocks[i].input]])

\* (variant: one user turn holding all the tool results)
ResultTurnsTogether(blocks) ==
  <<Message("user", <<>>,
            [i \in 1..Len(blocks) |->
               [type |-> "tool_result", tool_use_id |-> blocks[i].id,
                content |-> resultForApi(blocks[i].result)]])>>

ResultTurns(blocks) ==
  [i \in 1..Len(blocks) |->
     Message("user", <<>>, <<[type |-> "tool_result", tool_use_id |-> blocks[i].id,
                              content |-> resultForApi(blocks[i].result)]>>)]

\* the tool call at hand, once its arguments are parsed
CurrentCall == Call(currentToolUse.name, JSONparse(currentToolUse.input).val)

\* history of a call handed to mcpManager.executeTool: which call of the
\* conversation, of which round, and how the execution ended
Invocation(seq, id, call) ==
  [seq |-> seq, id |-> id, call |-> call, round |-> round, outcome |-> "running"]

\* a call handed to mcpManager.executeTool
Invoke(call) ==
  executed' = Append(executed, Invocation(callSeq', currentToolUse.id, call))

\* the execution in flight is over
Settle(outcome) ==
  executed' = [executed EXCEPT ![Len(executed)].outcome = outcome]

\* getClaudeResponse(userMessage, conversationHistory, tools, mcpManager, cliInterface)
\* up to the first request, or up to the first chunk of the local provider
StartCloud(c) ==
  /\ pc = "idle"
  /\ ~c.local
  /\ cfg' = c
  /\ CacheConstruct("req")
  /\ messages' = <<UserMessage>>
  /\ pc' = "request"
  /\ UNCHANGED <<round, stream, sent, partialLine, lines, toolUseBlocks, currentToolUse,
                 assistantResponse, usedTools, fullResponse, toolExecuted, pending, deltas,
                 finalized, callSeq, starts, approvals, declined, executed, requests>>
  /\ UNCHANGED <<olVars, mcpVars, extVars>>

\* (variant: the tool blocks of the round before are kept)
RequestKeepsBlocks(text) ==
  /\ pc = "request"
  /\ starts + ToolStarts(text) <= MaxToolCalls
  /\ requests' = Append(requests, messages)
  /\ round' = round + 1
  /\ stream' = text
  /\ sent' = 0
  /\ partialLine' = <<>>
  /\ lines' = <<>>
  /\ currentToolUse' = NoTool
  /\ assistantResponse' = <<>>
  /\ usedTools' = FALSE
  /\ deltas' = <<>>
  /\ finalized' = <<>>
  /\ pc' = "stream"
  /\ UNCHANGED <<cfg, messages, toolUseBlocks, fullResponse, toolExecuted, pending, callSeq, starts,
                 approvals, declined, executed>>
  /\ UNCHANGED pcVars
  /\ UNCHANGED <<olVars, mcpVars, extVars>>

\* axios.post succeeds: the per-round state is set up and the stream is open
Request(text) ==
  /\ pc = "request"
  /\ starts + ToolStarts(text) <= MaxToolCalls
  /\ requests' = Append(requests, messages)
  /\ round' = round + 1
  /\ stream' = text
  /\ sent' = 0
  /\ partialLine' = <<>>
  /\ lines' = <<>>
  /\ toolUseBlocks' = <<>>
  /\ currentToolUse' = NoTool
  /\ assistantResponse' = <<>>
  /\ usedTools' = FALSE
  /\ deltas' = <<>>
  /\ finalized' = <<>>
  /\ pc' = "stream"
  /\ UNCHANGED <<cfg, messages, fullResponse, toolExecuted, pending, callSeq, starts,
                 approvals, declined, executed>>
  /\ UNCHANGED pcVars
  /\ UNCHANGED <<olVars, mcpVars, extVars>>

\* axios.post rejects: the catch at api.js:318 logs and returns null
RequestFails ==
  /\ pc = "request"
  /\ requests' = Append(requests, messages)
  /\ round' = round + 1
  /\ pc' = "failed"
  /\ UNCHANGED <<cfg, messages, stream, sent, partialLine, lines, toolUseBlocks,
                 currentToolUse, assistantResponse, usedTools, fullResponse, toolExecuted,
                 pending, deltas, finalized, callSeq, starts, approvals, declined, executed>>
  /\ UNCHANGED pcVars
  /\ UNCHANGED <<olVars, mcpVars, extVars>>

\* the next chunk, of n bytes, arrives: chunkText.split('\n'), lines.pop() || ''
Chunk(n) ==
  /\ pc = "stream"
  /\ lines = <<>>
  /\ n \in 1..(Len(stream) - sent)
  /\ LET currentChunkString == toString(SubSeq(stream, sent + 1, sent + n))
         chunkText == partialLine \o currentChunkString
         split == SplitOn(chunkText, "\n") IN
     /\ partialLine' = split[Len(split)]
     /\ lines' = SubSeq(split, 1, Len(split) - 1)
  /\ sent' = sent + n
  /\ UNCHANGED <<cfg, pc, round, messages, stream, toolUseBlocks, currentToolUse,
                 assistantResponse, usedTools, fullResponse, toolExecuted, pending, deltas,
                 finalized, callSeq, starts, approvals, declined, executed, requests>>
  /\ UNCHANGED pcVars
  /\ UNCHANGED <<olVars, mcpVars, extVars>>

\* the response stream errors before its end: the same catch, return null
StreamFails ==
  /\ pc = "stream"
  /\ lines = <<>>
  /\ sent < Len(stream)
  /\ pc' = "failed"
  /\ UNCHANGED <<cfg, round, messages, stream, sent, partialLine, lines, toolUseBlocks,
                 currentToolUse, assistantResponse, usedTools, fullResponse, toolExecuted,
                 pending, deltas, finalized, callSeq, starts, approvals, declined, executed,
                 requests>>
  /\ UNCHANGED pcVars
  /\ UNCHANGED <<olVars, mcpVars, extVars>>

\* the record of the line the loop is at
Cur == Classify(Head(lines))
AtLine == pc = "stream" /\ lines # <<>>

\* (variant: a line without effect also closes the tool call that is open)
SkipLineResets ==
  /\ AtLine
  /\ \/ Cur.type \in {"ignored", "ping"}
     \/ Cur.type = "content_block_start" /\ Cur.kind # "tool_use"
     \/ Cur.type = "content_block_delta" /\ Cur.kind = "input_json_delta" /\ ~currentToolUse.open
     \/ Cur.type = "content_block_stop" /\ ~currentToolUse.open
  /\ lines' = Tail(lines)
  /\ currentToolUse' = NoTool
  /\ UNCHANGED <<cfg, pc, round, messages, stream, sent, partialLine, toolUseBlocks,
                 assistantResponse, usedTools, fullResponse, toolExecuted,
                 pending, deltas, finalized, callSeq, starts, approvals, declined, executed,
                 requests>>
  /\ UNCHANGED pcVars
  /\ UNCHANGED <<olVars, mcpVars, extVars>>

\* a blank line, a line without the prefix, a payload that does not parse, a record
\* of a type the loop has no branch for, a text block start, a fragment or an end
\* marker with no tool call open
SkipLine ==
  /\ AtLine
  /\ \/ Cur.type \in {"ignored", "ping"}
     \/ Cur.type = "content_block_start" /\ Cur.kind # "tool_use"
     \/ Cur.type = "content_block_delta" /\ Cur.kind = "input_json_delta" /\ ~currentToolUse.open
     \/ Cur.type = "content_block_stop" /\ ~currentToolUse.open
  /\ lines' = Tail(lines)
  /\ UNCHANGED <<cfg, pc, round, messages, stream, sent, partialLine, toolUseBlocks,
                 currentToolUse, assistantResponse, usedTools, fullResponse, toolExecuted,
                 pending, deltas, finalized, callSeq, starts, approvals, declined, executed,
                 requests>>
  /\ UNCHANGED pcVars
  /\ UNCHANGED <<olVars, mcpVars, extVars>>

\* content_block_start of a tool_use block (api.js:123-131)
ToolStart ==
  /\ AtLine
  /\ Cur.type = "content_block_start" /\ Cur.kind = "tool_use"
  /\ currentToolUse' = [open |-> TRUE, id |-> Cur.id, name |-> Cur.name, input |-> <<>>]
  /\ usedTools' = TRUE
  /\ starts' = starts + 1
  /\ lines' = Tail(lines)
  /\ UNCHANGED <<cfg, pc, round, messages, stream, sent, partialLine, toolUseBlocks,
                 assistantResponse, fullResponse, toolExecuted, pending, deltas, finalized,
                 callSeq, approvals, declined, executed, requests>>
  /\ UNCHANGED pcVars
  /\ UNCHANGED <<olVars, mcpVars, extVars>>

\* text_delta (api.js:133-135)
TextDelta ==
  /\ AtLine
  /\ Cur.type = "content_block_delta" /\ Cur.kind = "text_delta"
  /\ assistantResponse' = assistantResponse \o Cur.text
  /\ deltas' = Append(deltas, Cur.text)
  /\ lines' = Tail(lines)
  /\ UNCHANGED <<cfg, pc, round, messages, stream, sent, partialLine, toolUseBlocks,
                 currentToolUse, usedTools, fullResponse, toolExecuted, pending, finalized,
                 callSeq, starts, approvals, declined, executed, requests>>
  /\ UNCHANGED pcVars
  /\ UNCHANGED <<olVars, mcpVars, extVars>>

\* (variant: the fragment replaces what was accumulated)
JsonDeltaOverwrite ==
  /\ AtLine
  /\ Cur.type = "content_block_delta" /\ Cur.kind = "input_json_delta"
  /\ currentToolUse.open
  /\ currentToolUse' = [currentToolUse EXCEPT !.input = Cur.text]
  /\ lines' = Tail(lines)
  /\ UNCHANGED <<cfg, pc, round, messages, stream, sent, partialLine, toolUseBlocks,
                 assistantResponse, usedTools, fullResponse, toolExecuted, pending, deltas,
                 finalized, callSeq, starts, approvals, declined, executed, requests>>
  /\ UNCHANGED pcVars
  /\ UNCHANGED <<olVars, mcpVars, extVars>>

\* input_json_delta while a tool call is open (api.js:136-138)
JsonDelta ==
  /\ AtLine
  /\ Cur.type = "content_block_delta" /\ Cur.kind = "input_json_delta"
  /\ currentToolUse.open
  /\ currentToolUse' = [currentToolUse EXCEPT !.input = @ \o Cur.text]
  /\ lines' = Tail(lines)
  /\ UNCHANGED <<cfg, pc, round, messages, stream, sent, partialLine, toolUseBlocks,
                 assistantResponse, usedTools, fullResponse, toolExecuted, pending, deltas,
                 finalized, callSeq, starts, approvals, declined, executed, requests>>
  /\ UNCHANGED pcVars
  /\ UNCHANGED <<olVars, mcpVars, extVars>>

\* content_block_stop with a tool call open, up to the first await (api.js:139-201)
BlockStop ==
  /\ AtLine
  /\ Cur.type = "content_block_stop"
  /\ currentToolUse.open
  /\ IF ~JSONparse(currentToolUse.input).ok
       \* JSON.parse throws; the handler's catch evaluates JSON.parse again
       \* (api.js:234) and that throw is swallowed by the per-line catch
       THEN /\ lines' = Tail(lines)
            /\ UNCHANGED <<pc, currentToolUse, finalized, callSeq, approvals, executed>>
            /\ UNCHANGED pcVars
       ELSE /\ finalized' = Append(finalized, [id |-> currentToolUse.id, call |-> CurrentCall])
            /\ callSeq' = callSeq + 1
            /\ IF ~cfg.mcp
                 THEN /\ currentToolUse' = NoTool
                      /\ lines' = Tail(lines)
                      /\ UNCHANGED <<pc, approvals, executed>>
                      /\ UNCHANGED pcVars
                 ELSE /\ UNCHANGED <<currentToolUse, lines>>
                      /\ IF cfg.cli
                           THEN /\ \E call \in {CurrentCall} : CacheIsApproved("req", call)
                                /\ IF \E call \in {CurrentCall} :
                                        isApproved(pcache["req"], call.name, call.input, now).ret
                                     THEN /\ approvals' = approvals \cup
                                                 {[seq |-> callSeq', how |-> "cached"]}
                                          /\ Invoke(CurrentCall)
                                          /\ pc' = "executing"
                                     ELSE /\ pc' = "asking"
                                          /\ UNCHANGED <<approvals, executed>>
                           ELSE /\ Invoke(CurrentCall)
                                /\ pc' = "executing"
                                /\ UNCHANGED approvals
                                /\ UNCHANGED pcVars
  /\ UNCHANGED <<cfg, round, messages, stream, sent, partialLine, toolUseBlocks,
                 assistantResponse, usedTools, fullResponse, toolExecuted, pending, deltas,
                 starts, declined, requests>>
  /\ UNCHANGED <<olVars, mcpVars, extVars>>

\* what cliInterface.askConfirmationWithRemember resolves to: remember implies approved
Answers == {[approved |-> FALSE, remember |-> FALSE], [approved |-> TRUE, remember |-> FALSE],
            [approved |-> TRUE, remember |-> TRUE]}

\* the confirmation resolves (api.js:169-196)
Answer(a) ==
  /\ pc = "asking"
  /\ IF ~a.approved
       THEN /\ toolUseBlocks' = Append(toolUseBlocks,
                                       ToolBlock(currentToolUse, CurrentCall.input, CancelResult))
            /\ declined' = declined \cup {[seq |-> callSeq, id |-> currentToolUse.id,
                                          round |-> round]}
            /\ currentToolUse' = NoTool
            /\ lines' = Tail(lines)
            /\ pc' = "stream"
            /\ UNCHANGED <<approvals, executed>>
            /\ UNCHANGED pcVars
       ELSE /\ IF a.remember THEN CacheAddApproval("req", CurrentCall, TRUE)
                             ELSE UNCHANGED pcVars
            /\ approvals' = approvals \cup {[seq |-> callSeq, how |-> "asked"]}
            /\ executed' = Append(executed,
                                  Invocation(callSeq, currentToolUse.id, CurrentCall))
            /\ pc' = "executing"
            /\ UNCHANGED <<toolUseBlocks, declined, currentToolUse, lines>>
  /\ UNCHANGED <<cfg, round, messages, stream, sent, partialLine, assistantResponse,
                 usedTools, fullResponse, toolExecuted, pending, deltas, finalized, callSeq,
                 starts, requests>>
  /\ UNCHANGED <<olVars, mcpVars, extVars>>

\* mcpManager.executeTool resolves with the host's result (api.js:201-219, 238)
ExecReturns(result) ==
  /\ pc = "executing"
  /\ toolUseBlocks' = Append(toolUseBlocks, ToolBlock(currentToolUse, CurrentCall.input, result))
  /\ currentToolUse' = NoTool
  /\ lines' = Tail(lines)
  /\ pc' = "stream"
  /\ Settle("returned")
  /\ UNCHANGED <<cfg, round, messages, stream, sent, partialLine, assistantResponse,
                 usedTools, fullResponse, toolExecuted, pending, deltas, finalized, callSeq,
                 starts, approvals, declined, requests>>
  /\ UNCHANGED pcVars
  /\ UNCHANGED <<olVars, mcpVars, extVars>>

\* (variant: a rejected execution ends the call as a failed request does)
ExecThrowsAborts ==
  /\ pc = "executing"
  /\ pc' = "failed"
  /\ Settle("threw")
  /\ UNCHANGED <<cfg, round, messages, stream, sent, partialLine, assistantResponse,
                 usedTools, fullResponse, toolExecuted, pending, deltas, finalized, callSeq,
                 starts, approvals, declined, requests, toolUseBlocks, currentToolUse, lines>>
  /\ UNCHANGED pcVars
  /\ UNCHANGED <<olVars, mcpVars, extVars>>

\* mcpManager.executeTool rejects: the handler's catch (api.js:221-238)
ExecThrows ==
  /\ pc = "executing"
  /\ toolUseBlocks' = Append(toolUseBlocks,
                             ToolBlock(currentToolUse, CurrentCall.input, ThrownResult))
  /\ currentToolUse' = NoTool
  /\ lines' = Tail(lines)
  /\ pc' = "stream"
  /\ Settle("threw")
  /\ UNCHANGED <<cfg, round, messages, stream, sent, partialLine, assistantResponse,
                 usedTools, fullResponse, toolExecuted, pending, deltas, finalized, callSeq,
                 starts, approvals, declined, requests>>
  /\ UNCHANGED pcVars
  /\ UNCHANGED <<olVars, mcpVars, extVars>>

\* message_stop: break leaves the loop over the lines of this chunk (api.js:240-241)
MessageStop ==
  /\ AtLine
  /\ Cur.type = "message_stop"
  /\ lines' = <<>>
  /\ UNCHANGED <<cfg, pc, round, messages, stream, sent, partialLine, toolUseBlocks,
                 currentToolUse, assistantResponse, usedTools, fullResponse, toolExecuted,
                 pending, deltas, finalized, callSeq, starts, approvals, declined, executed,
                 requests>>
  /\ UNCHANGED pcVars
  /\ UNCHANGED <<olVars, mcpVars, extVars>>

\* the text the flush of partialLine yields at the end of the stream (api.js:250-264)
FlushText(rest) ==
  IF Trim(rest) # <<>> /\ Classify(rest).type = "content_block_delta"
                       /\ Classify(rest).kind = "text_delta"
    THEN <<Classify(rest).text>> ELSE <<>>

\* the stream ends: flush, then loop with the tool results or complete (api.js:250-316)
EndOfStream ==
  /\ pc = "stream"
  /\ lines = <<>>
  /\ sent = Len(stream)
  /\ LET flushed == FlushText(partialLine)
         text == IF flushed = <<>> THEN assistantResponse
                                   ELSE assistantResponse \o flushed[1] IN
     /\ assistantResponse' = text
     /\ deltas' = deltas \o flushed
     /\ IF usedTools /\ toolUseBlocks # <<>>
          THEN /\ messages' = messages \o <<AssistantTurn(text, toolUseBlocks)>> \o
                              ResultTurns(toolUseBlocks)
               /\ pc' = "request"
          ELSE /\ pc' = "done"
               /\ UNCHANGED messages
  /\ UNCHANGED <<cfg, round, stream, sent, partialLine, lines, toolUseBlocks, currentToolUse,
                 usedTools, fullResponse, toolExecuted, pending, finalized, callSeq, starts,
                 approvals, declined, executed, requests>>
  /\ UNCHANGED pcVars
  /\ UNCHANGED <<olVars, mcpVars, extVars>>

(***************************************************************************)
(* getLocalLLMResponse (api.js:396-465)                                    *)
(***************************************************************************)
\* text.indexOf(sym, from), 1-based; 0 for -1
IndexOf(text, sym, from) ==
  IF \E i \in from..Len(text) : text[i] = sym
    THEN CHOOSE i \in from..Len(text) : text[i] = sym /\ \A j \in from..(i - 1) : text[j] # sym
    ELSE 0

RECURSIVE MatchBrace(_, _, _)
\* the brace-counting loop: the position of the brace closing the one at jsonStart, or 0
MatchBrace(text, i, braceCount) ==
  IF i > Len(text) THEN 0
  ELSE IF text[i] = "{" THEN MatchBrace(text, i + 1, braceCount + 1)
  ELSE IF text[i] = "}"
    THEN IF braceCount - 1 = 0 THEN i ELSE MatchBrace(text, i + 1, braceCount - 1)
  ELSE MatchBrace(text, i + 1, braceCount)

\* extractToolUseJson: [found, json]
extractToolUseJson(text) ==
  LET toolUseIndex == IndexOf(text, "TOOL_USE:", 1)
      jsonStart == IF toolUseIndex = 0 THEN 0 ELSE IndexOf(text, "{", toolUseIndex)
      jsonEnd == IF jsonStart = 0 THEN 0 ELSE MatchBrace(text, jsonStart, 0) IN
  IF jsonEnd = 0 THEN [found |-> FALSE, json |-> <<>>]
  ELSE [found |-> TRUE, json |-> SubSeq(text, jsonStart, jsonEnd)]

\* what the local provider can answer
LocalPlain == <<"Hello", " ", "there">>
LocalTool ==
  <<"Sure.", " ", "TOOL_USE:", " ", "{", "\"", "name", "\"", ":", "\"", "shell_execute", "\"",
    ",", "\"", "parameters", "\"", ":", "{", "\"", "command", "\"", ":", "\"", "ls", "\"",
    "}", "}", " ", "bye">>
LocalNoParams == <<"TOOL_USE:", " ", "{", "\"", "name", "\"", ":", "\"", "file_list", "\"", "}">>
LocalBadJson == <<"TOOL_USE:", " ", "{", "name", "}">>
LocalStreams == {LocalPlain, LocalTool, LocalNoParams, LocalBadJson}
LocalFollowUp == <<"The", " ", "listing">>

\* the tool call getLocalLLMResponse executes after this much of the response:
\* [run, call]
LocalToolCall(text) ==
  LET x == extractToolUseJson(text)
      parsed == JSONparse(x.json)
      none == [run |-> FALSE, call |-> Call("", Undefined)] IN
  IF ~toolExecuted /\ cfg.tools /\ IndexOf(text, "TOOL_USE:", 1) # 0 /\ x.found /\ parsed.ok
     /\ cfg.mcp /\ Truthy(Get(parsed.val, "name")) /\ Truthy(Get(parsed.val, "parameters"))
    THEN [run |-> TRUE,
          call |-> Call(Get(parsed.val, "name").s[1], Get(parsed.val, "parameters"))]
    ELSE none

\* getClaudeResponse with a local provider active: yield* getLocalLLMResponse(...)
StartLocal(c, text) ==
  /\ pc = "idle"
  /\ c.local
  /\ cfg' = c
  /\ messages' = <<UserMessage>>
  /\ requests' = Append(requests, <<UserMessage>>)
  /\ pending' = text
  /\ pc' = "local"
  /\ UNCHANGED <<round, stream, sent, partialLine, lines, toolUseBlocks, currentToolUse,
                 assistantResponse, usedTools, fullResponse, toolExecuted, deltas, finalized,
                 callSeq, starts, approvals, declined, executed>>
  /\ UNCHANGED pcVars
  /\ UNCHANGED <<olVars, mcpVars, extVars>>

\* one chunk of the provider's response (api.js:412-429); the chunks are yielded as
\* they come and are not recorded
LocalChunk(n) ==
  /\ pc = "local"
  /\ n \in 1..Len(pending)
  /\ fullResponse' = fullResponse \o SubSeq(pending, 1, n)
  /\ pending' = SubSeq(pending, n + 1, Len(pending))
  /\ IF LocalToolCall(fullResponse').run
       THEN /\ toolExecuted' = TRUE
            /\ callSeq' = callSeq + 1
            /\ Invoke(LocalToolCall(fullResponse').call)
            /\ pc' = "localExec"
       ELSE UNCHANGED <<toolExecuted, callSeq, executed, pc>>
  /\ UNCHANGED <<cfg, round, messages, stream, sent, partialLine, lines, toolUseBlocks,
                 currentToolUse, assistantResponse, usedTools, deltas, finalized, starts,
                 approvals, declined, requests>>
  /\ UNCHANGED pcVars
  /\ UNCHANGED <<olVars, mcpVars, extVars>>

\* executeTool resolves: the follow-up request with the tool result (api.js:430-449)
LocalExecReturns(result) ==
  /\ pc = "localExec"
  /\ requests' = Append(requests,
                        messages \o <<Message("assistant", fullResponse, <<>>),
                                      Message("user", <<"Tool returned: ">> \o resultForApi(result),
                                              <<>>)>>)
  /\ pending' = LocalFollowUp
  /\ pc' = "localFollow"
  /\ Settle("returned")
  /\ UNCHANGED <<cfg, round, messages, stream, sent, partialLine, lines, toolUseBlocks,
                 currentToolUse, assistantResponse, usedTools, fullResponse, toolExecuted,
                 deltas, finalized, callSeq, starts, approvals, declined>>
  /\ UNCHANGED pcVars
  /\ UNCHANGED <<olVars, mcpVars, extVars>>

\* executeTool rejects: the error is yielded and the loop goes on (api.js:455-457)
LocalExecThrows ==
  /\ pc = "localExec"
  /\ pc' = "local"
  /\ Settle("threw")
  /\ UNCHANGED <<cfg, round, messages, stream, sent, partialLine, lines, toolUseBlocks,
                 currentToolUse, assistantResponse, usedTools, fullResponse, toolExecuted,
                 pending, deltas, finalized, callSeq, starts, approvals, declined, requests>>
  /\ UNCHANGED pcVars
  /\ UNCHANGED <<olVars, mcpVars, extVars>>

\* one chunk of the follow-up response (api.js:447-449)
LocalFollowChunk(n) ==
  /\ pc = "localFollow"
  /\ n \in 1..Len(pending)
  /\ pending' = SubSeq(pending, n + 1, Len(pending))
  /\ UNCHANGED <<cfg, pc, round, messages, stream, sent, partialLine, lines, toolUseBlocks,
                 currentToolUse, assistantResponse, usedTools, fullResponse, toolExecuted,
                 deltas, finalized, callSeq, starts, approvals, declined, executed, requests>>
  /\ UNCHANGED pcVars
  /\ UNCHANGED <<olVars, mcpVars, extVars>>

\* the response, or the follow-up and the break after it, is over
LocalEnd ==
  /\ pc \in {"local", "localFollow"}
  /\ pending = <<>>
  /\ pc' = "done"
  /\ UNCHANGED <<cfg, round, messages, stream, sent, partialLine, lines, toolUseBlocks,
                 currentToolUse, assistantResponse, usedTools, fullResponse, toolExecuted,
                 pending, deltas, finalized, callSeq, starts, approvals, declined, executed,
                 requests>>
  /\ UNCHANGED pcVars
  /\ UNCHANGED <<olVars, mcpVars, extVars>>

\* the provider's stream throws: rethrown as 'Local LLM error' (api.js:461-464)
LocalFails ==
  /\ pc \in {"local", "localFollow"}
  /\ pending # <<>>
  /\ pc' = "threw"
  /\ UNCHANGED <<cfg, round, messages, stream, sent, partialLine, lines, toolUseBlocks,
                 currentToolUse, assistantResponse, usedTools, fullResponse, toolExecuted,
                 pending, deltas, finalized, callSeq, starts, approvals, declined, executed,
                 requests>>
  /\ UNCHANGED pcVars
  /\ UNCHANGED <<olVars, mcpVars, extVars>>

Next ==
  \/ \E c \in Configs : StartCloud(c)
  \/ \E text \in Streams : Request(text)
  \/ RequestFails
  \/ \E n \in 1..Len(stream) : Chunk(n)
  \/ StreamFails
  \/ SkipLine
  \/ ToolStart
  \/ TextDelta
  \/ JsonDelta
  \/ BlockStop
  \/ \E a \in Answers : Answer(a)
  \/ \E r \in HostResults : ExecReturns(r)
  \/ ExecThrows
  \/ MessageStop
  \/ EndOfStream
  \/ \E c \in Configs, text \in LocalStreams : StartLocal(c, text)
  \/ \E n \in 1..Len(pending) : LocalChunk(n)
  \/ \E r \in HostResults : LocalExecReturns(r)
  \/ LocalExecThrows
  \/ \E n \in 1..Len(pending) : LocalFollowChunk(n)
  \/ LocalEnd
  \/ LocalFails

\* one call of getClaudeResponse, the backend, the approval collaborator and the tool
\* hosts answering in every way
Spec == InitPC /\ [][Next]_vars

TypeOK == pc \in {"idle", "request", "stream", "asking", "executing", "done", "failed",
                  "local", "localExec", "localFollow", "threw"}

\* the run of the loop over the lines of one chunk (api.js:114-246) as far as the
\* yielded text and the finalized calls go: st is [tool, deltas, finalized]
RECURSIVE RunLines(_, _)
RunLines(ls, st) ==
  IF ls = <<>> THEN st
  ELSE LET ev == Classify(Head(ls)) IN
    IF ev.type = "message_stop" THEN st
    ELSE IF ev.type = "content_block_start" /\ ev.kind = "tool_use"
      THEN RunLines(Tail(ls), [st EXCEPT !.tool = [open |-> TRUE, id |-> ev.id,
                                                   name |-> ev.name, input |-> <<>>]])
    ELSE IF ev.type = "content_block_delta" /\ ev.kind = "text_delta"
      THEN RunLines(Tail(ls), [st EXCEPT !.deltas = Append(@, ev.text)])
    ELSE IF ev.type = "content_block_delta" /\ ev.kind = "input_json_delta" /\ st.tool.open
      THEN RunLines(Tail(ls), [st EXCEPT !.tool.input = @ \o ev.text])
    ELSE IF ev.type = "content_block_stop" /\ st.tool.open /\ JSONparse(st.tool.input).ok
      THEN RunLines(Tail(ls),
                    [st EXCEPT !.tool = NoTool,
                               !.finalized = Append(@, [id |-> st.tool.id,
                                    call |-> Call(st.tool.name, JSONparse(st.tool.input).val)])])
    ELSE RunLines(Tail(ls), st)

\* a round over a stream that arrives as a single chunk: [deltas, finalized]
WholeChunk(text) ==
  LET split == SplitOn(toString(text), "\n")
      st == RunLines(SubSeq(split, 1, Len(split) - 1),
                     [tool |-> NoTool, deltas |-> <<>>, finalized |-> <<>>]) IN
  [deltas |-> st.deltas \o FlushText(split[Len(split)]), finalized |-> st.finalized]

(***************************************************************************)
(* Properties of getClaudeResponse                                         *)
(***************************************************************************)
RoundOver == ~cfg.local /\ round >= 1 /\ pc \in {"request", "done"}
Approved(seq) == \E a \in approvals : a.seq = seq

\* C1: mcpManager.executeTool is invoked for a call only after isApproved returned
\* true for it or the approval collaborator approved it, whatever the caller passes
C1_ApprovalGate ==
  \A i \in 1..Len(executed) : Approved(executed[i].seq)

\* the result turn of a declined call
IsCancellation(m, id) ==
  /\ m.role = "user"
  /\ Len(m.blocks) = 1
  /\ m.blocks[1].type = "tool_result"
  /\ m.blocks[1].tool_use_id = id
  /\ m.blocks[1].content = resultForApi(CancelResult)

\* C2: a declined call is never executed and adds nothing to the permission cache; a
\* cancellation result flagged isError is recorded once, for its call id; the loop
\* goes on with the next line of the stream; at the end of the stream a further
\* request is due, and the request that follows carries the cancellation result
C2_DeclineInv ==
  /\ \A d \in declined : \A i \in 1..Len(executed) : executed[i].seq # d.seq
  /\ \A d \in declined :
       d.round < round => \E i \in 1..Len(requests[d.round + 1]) :
                             IsCancellation(requests[d.round + 1][i], d.id)

C2_DeclineStep ==
  /\ declined' # declined =>
       /\ pcache' = pcache /\ file' = file
       /\ Len(toolUseBlocks') = Len(toolUseBlocks) + 1
       /\ LET b == toolUseBlocks'[Len(toolUseBlocks')] IN
            /\ b.id = currentToolUse.id
            /\ b.result.isError
            /\ b.result = CancelResult
       /\ SubSeq(toolUseBlocks', 1, Len(toolUseBlocks)) = toolUseBlocks
       /\ pc' = "stream" /\ lines' = Tail(lines) /\ ~currentToolUse'.open
  /\ (pc = "stream" /\ pc' \in {"request", "done"}) =>
       \A d \in declined : d.round = round =>
         /\ pc' = "request"
         /\ \E i \in (Len(messages) + 1)..Len(messages') : IsCancellation(messages'[i], d.id)

\* C2: a declined call is cancelled, not executed and not remembered, and the round
\* goes on and reports the cancellation to the backend
C2_DeclineContinues == []C2_DeclineInv /\ [][C2_DeclineStep]_vars

\* a call was declined, a later call of the same stream was executed, and the
\* results went out with the request of the next round
C2_Witness ==
  /\ \E d \in declined : \E i \in 1..Len(executed) :
        executed[i].round = d.round /\ executed[i].seq > d.seq /\ d.round < round
  /\ pcache["req"].approvedTools = <<>>

\* C9: however the stream text is cut into chunks, the round yields the text deltas
\* and finalizes the tool calls that it does when the text arrives as one chunk
C9_ChunkIndependent ==
  RoundOver => /\ deltas = WholeChunk(stream).deltas
               /\ finalized = WholeChunk(stream).finalized

(***************************************************************************)
(* OllamaProvider.streamResponse (OllamaProvider.js:64-150)                *)
(***************************************************************************)
\* one line of the body: {"message":{"content":"..."}}
OllamaRecord(content) ==
  <<"{", "\"", "message", "\"", ":", "{", "\"", "content", "\"", ":", "\"">> \o content \o
  <<"\"", "}", "}">>
OllamaDone == <<"{", "\"", "done_reason", "\"", ":", "\"", "stop", "\"", "}">>
OllamaCut == <<"{", "\"", "message", "\"", ":">>
OllamaBlank == <<" ">>

RecHi == OllamaRecord(<<"Hi">>)
RecThere == OllamaRecord(<<"there">>)
RecCafe == OllamaRecord(<<"caf", LeadByte, ContByte>>)
RecEmpty == OllamaRecord(<<>>)

\* the bodies Ollama can send
OllamaStreams ==
  {StreamText(<<RecHi, RecThere>>, TRUE),
   StreamText(<<RecHi, RecThere>>, FALSE),
   StreamText(<<RecHi, OllamaCut, OllamaBlank, RecThere>>, TRUE),
   StreamText(<<RecEmpty, OllamaDone, RecThere>>, TRUE),
   StreamText(<<RecCafe>>, TRUE),
   StreamText(<<RecHi, RecCafe>>, FALSE),
   StreamText(<<OllamaCut>>, FALSE)}

\* what one line yields (OllamaProvider.js:120-129, 136-142): JSON.parse skips the
\* white space around the value
YieldOfLine(line) ==
  LET data == JSONparse(Trim(line)) IN
  IF Trim(line) # <<>> /\ data.ok /\ data.val.t = "obj" /\ Truthy(Get(data.val, "message"))
     /\ Get(data.val, "message").t = "obj"
     /\ Truthy(Get(Get(data.val, "message"), "content"))
    THEN <<Get(Get(data.val, "message"), "content").s>>
    ELSE <<>>

RECURSIVE YieldsOf(_)
\* the loop over the lines of a chunk
YieldsOf(ls) == IF ls = <<>> THEN <<>> ELSE YieldOfLine(Head(ls)) \o YieldsOf(Tail(ls))

\* streamResponse(messages, tools) up to the first chunk: the request succeeded
OllamaStart(body) ==
  /\ reading = "idle"
  /\ response' = body
  /\ received' = 0
  /\ buffer' = <<>>
  /\ yielded' = <<>>
  /\ reading' = "reading"
  /\ UNCHANGED <<pcVars, orchVars, mcpVars, extVars>>

\* a chunk of n bytes: buffer += chunk.toString(), split, pop, the loop over the lines
OllamaChunk(n) ==
  /\ reading = "reading"
  /\ n \in 1..(Len(response) - received)
  /\ LET split == SplitOn(buffer \o toString(SubSeq(response, received + 1, received + n)), "\n") IN
     /\ buffer' = split[Len(split)]
     /\ yielded' = yielded \o YieldsOf(SubSeq(split, 1, Len(split) - 1))
  /\ received' = received + n
  /\ UNCHANGED <<response, reading>>
  /\ UNCHANGED <<pcVars, orchVars, mcpVars, extVars>>

\* the body is over: the remaining buffer is processed (OllamaProvider.js:133-143)
OllamaEnd ==
  /\ reading = "reading"
  /\ received = Len(response)
  /\ yielded' = yielded \o YieldOfLine(buffer)
  /\ reading' = "done"
  /\ UNCHANGED <<response, received, buffer>>
  /\ UNCHANGED <<pcVars, orchVars, mcpVars, extVars>>

\* the body errors before its end: rethrown as 'Ollama API error' (OllamaProvider.js:144-149)
OllamaFails ==
  /\ reading = "reading"
  /\ received < Len(response)
  /\ reading' = "threw"
  /\ UNCHANGED <<response, received, buffer, yielded>>
  /\ UNCHANGED <<pcVars, orchVars, mcpVars, extVars>>

NextOllama ==
  \/ \E body \in OllamaStreams : OllamaStart(body)
  \/ \E n \in 1..Len(response) : OllamaChunk(n)
  \/ OllamaEnd
  \/ OllamaFails

\* one call of streamResponse over every body, cut into chunks in every way
SpecOllama == InitPC /\ [][NextOllama]_vars

\* C10: however the body is cut into chunks, streamResponse yields the contents of
\* the records of the body, line by line, the last line included when no newline
\* follows it
C10_OllamaChunkIndependent ==
  reading = "done" => yielded = YieldsOf(SplitOn(toString(response), "\n"))

(***************************************************************************)
(* The arguments of a tool call, delivered in fragments                    *)
(***************************************************************************)
RECURSIVE FragsFrom(_, _, _)
\* the fragments of a text cut after the positions in cuts
FragsFrom(text, cuts, start) ==
  IF start > Len(text) THEN <<>>
  ELSE LET stop == IF \E c \in cuts : c >= start
                     THEN CHOOSE c \in cuts : c >= start /\ \A e \in cuts : e >= start => c <= e
                     ELSE Len(text)
       IN  <<SubSeq(text, start, stop)>> \o FragsFrom(text, cuts, stop + 1)

\* argument texts: an object, the empty object, a text that is cut short
ArgTexts == {JSONstringify(ListTmp.input), <<"{", "}">>, <<"{", "\"", "directory", "\"", ":">>}

\* a tool_use block for file_list whose arguments arrive in these fragments
ArgStream(frags) ==
  StreamText(<<DataLine("B1")>> \o
             [i \in 1..Len(frags) |-> <<"data:", " ", "J">> \o frags[i] \o <<"}">>] \o
             <<DataLine("E")>>, TRUE)

ArgStreams ==
  UNION {{ArgStream(FragsFrom(text, cuts, 1)) : cuts \in SUBSET (1..(Len(text) - 1))} :
           text \in ArgTexts}

NextArgs ==
  \/ StartCloud(Config(TRUE, FALSE, TRUE, FALSE))
  \/ \E text \in ArgStreams : Request(text)
  \/ \E n \in 1..Len(stream) : Chunk(n)
  \/ ToolStart
  \/ JsonDelta
  \/ BlockStop
  \/ EndOfStream

\* one round over a tool call whose arguments are cut into fragments in every way
SpecArgs == InitPC /\ [][NextArgs]_vars

RECURSIVE FragmentsOf(_)
\* the partial_json of the input_json_delta records among these lines, joined
FragmentsOf(ls) ==
  IF ls = <<>> THEN <<>>
  ELSE (IF Classify(Head(ls)).kind = "input_json_delta" THEN Classify(Head(ls)).text ELSE <<>>)
       \o FragmentsOf(Tail(ls))

ArgText == FragmentsOf(SplitOn(toString(stream), "\n"))
FragmentCount ==
  Cardinality({i \in 1..Len(SplitOn(toString(stream), "\n")) :
                 Classify(SplitOn(toString(stream), "\n")[i]).kind = "input_json_delta"})

\* C11: the arguments of a finalized call are what JSON.parse makes of the whole
\* argument text, however that text is cut into fragments; a text that does not
\* parse as a whole finalizes no call under any cut
C11_FragmentIndependent ==
  /\ \A i \in 1..Len(finalized) :
       JSONparse(ArgText).ok /\ finalized[i].call.input = JSONparse(ArgText).val
  /\ (RoundOver /\ JSONparse(ArgText).ok) => Len(finalized) = 1

\* the arguments of ListTmp came in one-symbol fragments and were parsed
C11_Witness ==
  /\ RoundOver
  /\ FragmentCount = Len(JSONstringify(ListTmp.input))
  /\ Len(finalized) = 1 /\ finalized[1].call = ListTmp

(***************************************************************************)
(* Records without effect                                                  *)
(***************************************************************************)
\* a line that is blank, has no 'data: ' prefix, does not parse, or is of a type
\* the loop has no branch for
IsBad(line) == Classify(line).type \in {"ignored", "ping"}
IsGood(line) == ~IsBad(line)

\* the stream text without its bad lines
Clean(text) ==
  LET split == SplitOn(toString(text), "\n")
      last == split[Len(split)] IN
  JoinLines(SelectSeq(SubSeq(split, 1, Len(split) - 1), IsGood)) \o
  (IF IsBad(last) THEN <<>> ELSE last)

\* a line with something on it is bad
HasBad(text) ==
  \E i \in 1..Len(SplitOn(toString(text), "\n")) :
     SplitOn(toString(text), "\n")[i] # <<>> /\ IsBad(SplitOn(toString(text), "\n")[i])

\* the loop is at a bad line: the step consumes the line and changes nothing else
C12_BadLineStep ==
  (AtLine /\ IsBad(Head(lines))) =>
     /\ lines' = Tail(lines)
     /\ UNCHANGED <<cfg, pc, round, messages, stream, sent, partialLine, toolUseBlocks,
                    currentToolUse, assistantResponse, usedTools, fullResponse, toolExecuted,
                    pending, deltas, finalized, callSeq, starts, approvals, declined,
                    executed, requests>>
     /\ UNCHANGED <<pcVars, olVars, mcpVars, extVars>>

\* a round over a stream with bad lines yields and finalizes what the stream
\* without them does
C12_AsIfAbsent ==
  (RoundOver /\ HasBad(stream)) =>
     /\ deltas = WholeChunk(Clean(stream)).deltas
     /\ finalized = WholeChunk(Clean(stream)).finalized

\* C12: a line that does not parse, has no 'data: ' prefix or is of an unknown type
\* changes nothing but the position in the stream and ends nothing; the records
\* after it are processed as if it had not been there
C12_BadRecordsDropped == []C12_AsIfAbsent /\ [][C12_BadLineStep]_vars

\* bad records arrived between the argument fragments of a tool call, and the call
\* was finalized with its arguments whole
C12_Witness ==
  /\ RoundOver
  /\ stream = StreamNoisyList
  /\ Len(finalized) = 1 /\ finalized[1].call = ListTmp
  /\ deltas = <<Decode("T1").text>>

(***************************************************************************)
(* Tool calls that fail                                                    *)
(***************************************************************************)
\* the loop is at the end marker of a tool call whose argument text does not parse
AtBadArgsStop ==
  /\ AtLine
  /\ Cur.type = "content_block_stop"
  /\ currentToolUse.open
  /\ ~JSONparse(currentToolUse.input).ok

\* C13: at the end marker of a tool call whose argument text is not valid JSON the
\* call is not executed, one error-flagged result for its id is recorded, and no
\* tool call stays open
C13_BadArgsStep ==
  AtBadArgsStop =>
     /\ executed' = executed
     /\ Len(toolUseBlocks') = Len(toolUseBlocks) + 1
     /\ toolUseBlocks'[Len(toolUseBlocks')].id = currentToolUse.id
     /\ toolUseBlocks'[Len(toolUseBlocks')].result.isError
     /\ ~currentToolUse'.open

C13_BadArgsRecorded == [][C13_BadArgsStep]_vars

\* the executions that threw, in getClaudeResponse's own loop
Thrown == {i \in 1..Len(executed) : executed[i].outcome = "threw" /\ ~cfg.local}

\* the result turn of a call whose execution threw
IsThrownResult(m, id) ==
  /\ m.role = "user"
  /\ Len(m.blocks) = 1
  /\ m.blocks[1].type = "tool_result"
  /\ m.blocks[1].tool_use_id = id
  /\ m.blocks[1].content = resultForApi(ThrownResult)

C14_ThrowInv ==
  \A i \in Thrown :
     executed[i].round < round =>
       \E k \in 1..Len(requests[executed[i].round + 1]) :
          IsThrownResult(requests[executed[i].round + 1][k], executed[i].id)

C14_ThrowStep ==
  /\ (pc = "executing" /\ executed'[Len(executed')].outcome = "threw") =>
       /\ pc' = "stream"
       /\ lines' = Tail(lines)
       /\ ~currentToolUse'.open
       /\ toolUseBlocks' = Append(toolUseBlocks, toolUseBlocks'[Len(toolUseBlocks')])
       /\ LET b == toolUseBlocks'[Len(toolUseBlocks')] IN
            b.id = currentToolUse.id /\ b.result.isError /\ b.result.error # <<>>
  /\ (pc = "stream" /\ pc' \in {"request", "done"}) =>
       \A i \in Thrown : executed[i].round = round =>
         /\ pc' = "request"
         /\ \E k \in (Len(messages) + 1)..Len(messages') :
               IsThrownResult(messages'[k], executed[i].id)

\* C14: when executeTool throws for a call, an error-flagged result with the error
\* message is recorded for that call's id, the loop goes on with the next line of
\* the stream, and at the end of the stream the next request carries that result
C14_ThrowContinues == []C14_ThrowInv /\ [][C14_ThrowStep]_vars

\* an execution threw, a later call of the same stream was executed, and the next
\* request went out
C14_Witness ==
  \E i \in Thrown : \E j \in 1..Len(executed) :
     /\ executed[j].round = executed[i].round /\ j > i
     /\ executed[i].round < round

(***************************************************************************)
(* Order of the tool calls of a round                                      *)
(***************************************************************************)
Running == {i \in 1..Len(executed) : executed[i].outcome = "running"}

RECURSIVE EndMarked(_, _)
\* the ids of the tool calls whose end marker is among these lines, up to message_stop
EndMarked(ls, tool) ==
  IF ls = <<>> THEN <<>>
  ELSE LET ev == Classify(Head(ls)) IN
    IF ev.type = "message_stop" THEN <<>>
    ELSE IF ev.type = "content_block_start" /\ ev.kind = "tool_use"
      THEN EndMarked(Tail(ls), [open |-> TRUE, id |-> ev.id])
    ELSE IF ev.type = "content_block_stop" /\ tool.open
      THEN <<tool.id>> \o EndMarked(Tail(ls), tool)
    ELSE EndMarked(Tail(ls), tool)

EndMarkedIds(text) ==
  LET ids == EndMarked(SplitOn(toString(text), "\n"), [open |-> FALSE, id |-> ""]) IN
  {ids[i] : i \in 1..Len(ids)}

\* at most one execution is in flight, and only while the loop waits for it; no
\* prompt is open while one is; the results are recorded in the order of the end
\* markers
C15_OneAtATime ==
  ~cfg.local =>
    /\ Cardinality(Running) <= 1
    /\ (Running # {}) = (pc = "executing")
    /\ \A i \in Running : i = Len(executed) /\ executed[i].id = currentToolUse.id
    /\ \A i, j \in 1..Len(executed) : i < j => executed[i].seq < executed[j].seq
    /\ cfg.mcp =>
         /\ Len(toolUseBlocks) =
              Len(finalized) - (IF pc \in {"asking", "executing"} THEN 1 ELSE 0)
         /\ \A k \in 1..Len(toolUseBlocks) : toolUseBlocks[k].id = finalized[k].id

\* when the request of the next round is due, every tool call of the round whose
\* end marker arrived has a recorded result
C15_ResultsBeforeRequest ==
  (~cfg.local /\ cfg.mcp /\ round >= 1 /\ pc = "request") =>
     \A id \in EndMarkedIds(stream) : \E k \in 1..Len(toolUseBlocks) : toolUseBlocks[k].id = id

\* C15: the tool calls of a round are prompted for and executed one at a time in the
\* order of their end markers, and the next request is issued only when each of
\* them has a recorded result
C15_Sequential == C15_OneAtATime /\ C15_ResultsBeforeRequest

(***************************************************************************)
(* The turns appended after a round with tool results                      *)
(***************************************************************************)
\* the step that ends a round with recorded tool results
EndsToolRound == pc = "stream" /\ pc' = "request"

\* the assistant turn of the round: its text and its tool_use blocks, in order
IsAssistantTurn(m) ==
  /\ m.role = "assistant"
  /\ m.text = (IF Trim(assistantResponse') # <<>> THEN assistantResponse' ELSE <<>>)
  /\ Len(m.blocks) = Len(toolUseBlocks)
  /\ \A k \in 1..Len(toolUseBlocks) :
        /\ m.blocks[k].type = "tool_use"
        /\ m.blocks[k].id = toolUseBlocks[k].id
        /\ m.blocks[k].name = toolUseBlocks[k].name
        /\ m.blocks[k].input = toolUseBlocks[k].input

IsResultBlock(b, k) ==
  /\ b.type = "tool_result"
  /\ b.tool_use_id = toolUseBlocks[k].id
  /\ b.content = resultForApi(toolUseBlocks[k].result)

\* C16 as stated: two turns are appended, the assistant turn and one user turn
\* holding the N tool results in order
C16_TwoTurnsStep ==
  EndsToolRound =>
    /\ Len(messages') = Len(messages) + 2
    /\ SubSeq(messages', 1, Len(messages)) = messages
    /\ IsAssistantTurn(messages'[Len(messages) + 1])
    /\ LET u == messages'[Len(messages) + 2] IN
         /\ u.role = "user"
         /\ Len(u.blocks) = Len(toolUseBlocks)
         /\ \A k \in 1..Len(toolUseBlocks) : IsResultBlock(u.blocks[k], k)

C16_TwoTurns == [][C16_TwoTurnsStep]_vars

C16_TurnPerResultStep ==
  EndsToolRound =>
    /\ Len(toolUseBlocks) >= 1
    /\ Len(messages') = Len(messages) + 1 + Len(toolUseBlocks)
    /\ SubSeq(messages', 1, Len(messages)) = messages
    /\ IsAssistantTurn(messages'[Len(messages) + 1])
    /\ \A k \in 1..Len(toolUseBlocks) :
          LET u == messages'[Len(messages) + 1 + k] IN
            /\ u.role = "user"
            /\ Len(u.blocks) = 1
            /\ IsResultBlock(u.blocks[1], k)

\* C16 (amended): after a round with N >= 1 recorded tool results, 1 + N turns are
\* appended: the assistant turn with the text and the N tool_use blocks, then N
\* user turns, each holding one tool_result, in the order of the invocations
C16_TurnPerResult == [][C16_TurnPerResultStep]_vars

\* a round with two tool results has ended: the first request had one turn, and
\* the assistant turn and two result turns were appended
C16_Witness ==
  /\ ~cfg.local /\ pc = "request" /\ round = 1
  /\ Len(toolUseBlocks) = 2
  /\ Len(messages) = 4

(***************************************************************************)
(* Pairing of tool_use and tool_result blocks in the conversation          *)
(***************************************************************************)
\* the positions <<turn, block>> of the blocks of one type in a conversation
BlocksOf(conv, type) ==
  {p \in (1..Len(conv)) \X (1..MaxToolCalls) :
     /\ p[2] <= Len(conv[p[1]].blocks)
     /\ conv[p[1]].blocks[p[2]].type = type}

\* the turns after assistant turn i up to the next assistant turn
AnswerTurns(conv, i) ==
  {j \in (i + 1)..Len(conv) : \A m \in (i + 1)..j : conv[m].role # "assistant"}

Paired(conv) ==
  /\ \A r \in BlocksOf(conv, "tool_result") :
        \E u \in BlocksOf(conv, "tool_use") :
           /\ u[1] < r[1]
           /\ conv[u[1]].blocks[u[2]].id = conv[r[1]].blocks[r[2]].tool_use_id
  /\ \A u \in BlocksOf(conv, "tool_use") :
        Cardinality({r \in BlocksOf(conv, "tool_result") :
                       /\ r[1] \in AnswerTurns(conv, u[1])
                       /\ conv[r[1]].blocks[r[2]].tool_use_id = conv[u[1]].blocks[u[2]].id}) = 1
  /\ Cardinality(BlocksOf(conv, "tool_result")) = Cardinality(BlocksOf(conv, "tool_use"))

\* the invocations of the whole call that were declined or have settled
Recorded ==
  Cardinality(declined) + Cardinality({i \in 1..Len(executed) : executed[i].outcome # "running"})

C17_PairedInv ==
  /\ Paired(messages)
  /\ \A n \in 1..Len(requests) : Paired(requests[n])
  /\ (cfg.mcp /\ ~cfg.local /\ pc = "request") =>
        Cardinality(BlocksOf(messages, "tool_use")) = Recorded

\* the turns a round appends hold the blocks of that round only: what was there
\* stays as it was, and the new blocks are those finalized from this round's stream
C17_AppendStep ==
  EndsToolRound =>
    /\ SubSeq(messages', 1, Len(messages)) = messages
    /\ Cardinality(BlocksOf(messages', "tool_use")) =
         Cardinality(BlocksOf(messages, "tool_use")) + Len(toolUseBlocks)
    /\ Len(toolUseBlocks) <= Len(finalized)
    /\ \E f \in [1..Len(toolUseBlocks) -> 1..Len(finalized)] :
          /\ \A k \in 1..Len(toolUseBlocks) : finalized[f[k]].id = toolUseBlocks[k].id
          /\ \A k, l \in 1..Len(toolUseBlocks) : k < l => f[k] < f[l]

\* C17: in the conversation, as it stands and as it was sent with every request,
\* each tool_result names the id of a tool_use of an earlier turn, each tool_use
\* has exactly one tool_result in the turns that answer it, and a round appends
\* the blocks of its own tool calls only, each invocation once
C17_Pairing == [](C17_PairedInv) /\ [][C17_AppendStep]_vars

\* a second round with a tool call has ended: the conversation holds the blocks of
\* two rounds and was sent twice
C17_Witness ==
  /\ ~cfg.local /\ cfg.mcp /\ pc = "request" /\ round = 2
  /\ Len(requests) = 2
  /\ Cardinality(BlocksOf(messages, "tool_use")) = 2
  /\ Cardinality(BlocksOf(messages, "tool_result")) = 2

(***************************************************************************)
(* The loop over the rounds                                                *)
(***************************************************************************)
\* the tool calls the backend issued in a stream: a start marker of a tool_use block
\* and the end marker that closes it, both before the turn end marker
IssuedCalls(text) ==
  LET ls == SplitOn(toString(text), "\n")
      ev(i) == Classify(ls[i])
      Stops == {i \in 1..Len(ls) : ev(i).type = "message_stop"}
      Before(i) == \A m \in Stops : i < m
      Opens(j, i) ==
        /\ j < i
        /\ ev(j).type = "content_block_start" /\ ev(j).kind = "tool_use"
        /\ \A m \in (j + 1)..(i - 1) :
              ev(m).type \notin {"content_block_start", "content_block_stop"} IN
  Cardinality({i \in 1..Len(ls) :
     /\ ev(i).type = "content_block_stop"
     /\ Before(i)
     /\ \E j \in 1..Len(ls) : Opens(j, i)})

\* a round of the full orchestrator comes to its end
RoundEnds == ~cfg.local /\ cfg.mcp /\ pc = "stream" /\ pc' \in {"request", "done"}

C18_LoopStep == RoundEnds => (pc' = "request" <=> IssuedCalls(stream) >= 1)

\* the loop resubmits exactly after the rounds in which a tool call with
\* well-formed arguments was issued
C18_LoopStepParsed ==
  RoundEnds => (pc' = "request" <=> WholeChunk(stream).finalized # <<>>)

\* the streams and the chunk lengths of the runs checked for termination
LiveStreams == {StreamNoise, StreamList, StreamBadArgs}
LiveChunk == 16

NextLive ==
  \/ StartCloud(Config(TRUE, TRUE, TRUE, FALSE))
  \/ RequestFails
  \/ \E text \in LiveStreams : Request(text)
  \/ StreamFails
  \/ \E n \in {LiveChunk, Len(stream) - sent} : Chunk(n)
  \/ SkipLine
  \/ ToolStart
  \/ TextDelta
  \/ JsonDelta
  \/ BlockStop
  \/ \E a \in Answers : Answer(a)
  \/ \E r \in HostResults : ExecReturns(r)
  \/ ExecThrows
  \/ MessageStop
  \/ EndOfStream

\* one call of getClaudeResponse in which every step that can be taken is eventually
\* taken: the backend goes on sending or fails, prompts are answered, executions
\* settle, and within MaxToolCalls tool calls the backend sends a round without any
SpecLive == InitPC /\ [][NextLive]_vars /\ WF_vars(NextLive)

C18_Finishes == (pc # "idle") ~> (pc \in {"done", "failed"})

\* C18: the loop resubmits after every round in which the backend issued a tool call
\* and stops at the first round in which it issued none; once the backend sends a
\* round without tool calls, and prompts and executions return, the call finishes
C18_LoopUntilNoTools == [][C18_LoopStep]_vars /\ C18_Finishes

(***************************************************************************)
(* What the caller of getClaudeResponse observes (main.js:202-240)         *)
(***************************************************************************)
\* how the generator ends: 'return null' in the catch (api.js:335), falling off the
\* end of the function (api.js:338), 'throw new Error' in getLocalLLMResponse
\* (api.js:463)
Completion ==
  CASE pc = "failed" -> [kind |-> "return", value |-> "null"]
    [] pc = "done" -> [kind |-> "return", value |-> "undefined"]
    [] pc = "threw" -> [kind |-> "throw", value |-> "Error"]
    [] OTHER -> [kind |-> "running", value |-> "undefined"]

\* a chunk was yielded: a text delta of this round or the separator after a round
\* with tool results (api.js:311)
AnyChunk == deltas # <<>> \/ Len(requests) >= 2

\* what the caller does when 'for await (const chunk of assistantResponseStream)'
\* is over: the return value of the generator is not seen by for await
CallerShows ==
  CASE Completion.kind = "throw" -> "An error occurred while talking to Claude."
    [] Completion.kind = "return" /\ ~AnyChunk ->
         "Claude responded, but the message was empty. Please try again."
    [] Completion.kind = "return" /\ AnyChunk -> "response"
    [] OTHER -> "spinner"

\* the backend request or the response stream of a round has failed
BackendFailed == ~cfg.local /\ pc = "failed"

C19_NoFurtherRequest == [][BackendFailed => (pc' = "failed" /\ requests' = requests)]_vars

C19_CallerSeesError ==
  BackendFailed => /\ Completion.kind = "throw"
                   /\ CallerShows = "An error occurred while talking to Claude."

\* C19: after a failed backend request or response stream no further request is
\* issued, and the call ends for its caller with an error, not as a response that
\* came to its normal end
C19_FailureSurfaces == C19_NoFurtherRequest /\ []C19_CallerSeesError

(***************************************************************************)
(* One round from end to end                                               *)
(***************************************************************************)
\* { "path": "/tmp" }
PathTmp == Obj(<<KV("path", Str(<<"/tmp">>))>>)

\* the first round of the full orchestrator over StreamPath, no approval cached
PathRound ==
  /\ cfg = Config(TRUE, TRUE, TRUE, FALSE)
  /\ round = 1 /\ stream = StreamPath
  /\ ~\E a \in approvals : a.how = "cached"

\* the prompts that were put to the user
Prompts == Cardinality({a \in approvals : a.how = "asked"}) + Cardinality(declined)

C20_RoundInv ==
  PathRound =>
    /\ pc # "done"
    /\ Prompts <= 1
    /\ Len(executed) <= 1
    /\ Len(executed) = 1 =>
          /\ executed[1].id = "call1"
          /\ executed[1].call = Call("file_list", PathTmp)
          /\ approvals = {[seq |-> 1, how |-> "asked"]}
    /\ (pc = "request" /\ declined = {}) =>
          /\ Prompts = 1
          /\ Len(executed) = 1 /\ executed[1].outcome # "running"
          /\ Len(messages) = 3
          /\ messages[1] = UserMessage
          /\ messages[2].role = "assistant"
          /\ messages[2].text = <<"I'll check.">>
          /\ messages[2].blocks = <<[type |-> "tool_use", id |-> "call1",
                                     name |-> "file_list", input |-> PathTmp]>>
          /\ messages[3].role = "user"
          /\ Len(messages[3].blocks) = 1
          /\ messages[3].blocks[1].type = "tool_result"
          /\ messages[3].blocks[1].tool_use_id = "call1"
          /\ messages[3].blocks[1].content = resultForApi(toolUseBlocks[1].result)
          /\ toolUseBlocks[1].result \in HostResults \cup {ThrownResult}

\* once the round is over the loop is at its second axios.post: the next step
\* issues the request with the three turns
C20_SecondRequestStep ==
  (PathRound /\ pc = "request") =>
     /\ Len(requests) = 1
     /\ Len(requests') = 2
     /\ requests'[2] = messages

\* C20: for the stream text, call1 file_list, two fragments forming {"path":"/tmp"},
\* end of call1, end of turn, with no cached approval: one prompt; on approval one
\* executeTool("file_list", {"path":"/tmp"}); one assistant turn with the text and
\* the tool_use block, one user turn with the matching tool_result; a second request
C20_EndToEnd == [](C20_RoundInv) /\ [][C20_SecondRequestStep]_vars

\* the second request was issued after the approved, executed call of StreamPath
C20_Witness ==
  /\ cfg = Config(TRUE, TRUE, TRUE, FALSE)
  /\ Len(requests) = 2
  /\ Len(requests[2]) = 3
  /\ requests[2][2].text = <<"I'll check.">>
  /\ requests[2][2].blocks[1].input = PathTmp
  /\ approvals = {[seq |-> 1, how |-> "asked"]}
  /\ Len(executed) = 1 /\ executed[1].outcome = "returned"
  /\ executed[1].call = Call("file_list", PathTmp)

(***************************************************************************)
(* MCPManager and its hosts: the operations                                *)
(***************************************************************************)
Value(from, text) == [from |-> from, text |-> text]
NoValue == Value("", "")
Returns(value) == [kind |-> "return", value |-> value]
Throws(value) == [kind |-> "throw", value |-> value]

\* the manager's collections as one value, so that operations compose
Manager(srv, hst, reg, status) ==
  [servers |-> srv, host |-> hst, toolMap |-> reg, serverStatus |-> status]
This == Manager(servers, host, toolMap, serverStatus)

\* this.servers.has(name)
Has(m, n) == \E i \in 1..Len(m.servers) : m.servers[i] = n
\* the registry entries whose server is n
Owned(m, n) == {t \in ToolNames : m.toolMap[t] = n}
Without(seq, n) == SelectSeq(seq, LAMBDA x : x # n)

\* MCPClient.connect for a client that is not connected: the transport test, then
\* connectStdio and client.listTools, which succeed (ok) or throw
ClientConnect(n, config, ok) ==
  IF config.transport # "stdio"
    THEN [state |-> FreshHost, out |-> Throws(Value(n, "Unsupported transport"))]
    ELSE IF ok
      THEN [state |-> HostState(TRUE, DeclaredTools(n), "running"), out |-> Returns(NoValue)]
      ELSE [state |-> FreshHost, out |-> Throws(Value(n, "Connection failed"))]

\* MCPClient.handleDisconnect: the state is cleared and a live child process is killed
handleDisconnect(h) ==
  HostState(FALSE, {}, IF h.process = "running" THEN "signalled" ELSE h.process)

\* MCPClient.disconnect: nothing for a client that is not connected; otherwise
\* client.close() (its error is caught) and handleDisconnect. The managers catch a
\* rejection of server.disconnect(): rejects is that case, the cleanup having run
ClientDisconnect(h, rejects) ==
  IF ~h.connected
    THEN [state |-> h, out |-> Returns(NoValue)]
    ELSE [state |-> handleDisconnect(h),
          out |-> IF rejects THEN Throws(Value("host", "disconnect failed"))
                  ELSE Returns(NoValue)]

\* MCPClient.executeTool
ClientExecuteTool(h, n, t, fails) ==
  IF ~h.connected THEN Throws(Value(n, "Server not connected"))
  ELSE IF t \notin h.tools THEN Throws(Value(n, "Tool not found on server"))
  ELSE IF fails THEN Throws(Value(n, "Tool execution failed"))
  ELSE Returns(Value(n, "content"))

\* connectServer registering only the names that have no entry yet
connectServerFirstWins(m, n, config, ok) ==
  IF Has(m, n) THEN [m |-> m, out |-> Returns(NoValue), events |-> {}]
  ELSE IF config.command
    THEN LET c == ClientConnect(n, config, ok) IN
         IF c.out.kind = "throw" THEN [m |-> m, out |-> c.out, events |-> {}]
         ELSE [m |-> Manager(Append(m.servers, n),
                             [m.host EXCEPT ![n] = c.state],
                             [t \in ToolNames |->
                                IF t \in c.state.tools /\ m.toolMap[t] = "none"
                                  THEN n ELSE m.toolMap[t]],
                             m.serverStatus),
               out |-> Returns(NoValue),
               events |-> {"server:connected"}]
  ELSE [m |-> m, out |-> Returns(NoValue), events |-> {}]

\* MCPManager.connectServer: [m: the manager afterwards, out, events]
connectServer(m, n, config, ok) ==
  IF Has(m, n) THEN [m |-> m, out |-> Returns(NoValue), events |-> {}]
  ELSE IF config.command
    THEN LET c == ClientConnect(n, config, ok) IN
         IF c.out.kind = "throw" THEN [m |-> m, out |-> c.out, events |-> {}]
         ELSE [m |-> Manager(Append(m.servers, n),
                             [m.host EXCEPT ![n] = c.state],
                             [t \in ToolNames |->
                                IF t \in c.state.tools THEN n ELSE m.toolMap[t]],
                             m.serverStatus),
               out |-> Returns(NoValue),
               events |-> {"server:connected"}]
  ELSE [m |-> m, out |-> Returns(NoValue), events |-> {}]

\* disconnectServer without the try around server.disconnect()
disconnectServerRethrows(m, n, rejects) ==
  IF ~Has(m, n)
    THEN [m |-> m, out |-> Throws(Value("manager", "Server not found")), count |-> 0,
          events |-> {}]
    ELSE LET d == ClientDisconnect(m.host[n], rejects) IN
         IF d.out.kind = "throw"
           THEN [m |-> [m EXCEPT !.host[n] = d.state], out |-> d.out, count |-> 0,
                 events |-> {}]
           ELSE [m |-> Manager(Without(m.servers, n),
                               [m.host EXCEPT ![n] = d.state],
                               [t \in ToolNames |->
                                  IF m.toolMap[t] = n THEN "none" ELSE m.toolMap[t]],
                               [m.serverStatus EXCEPT ![n] = NoStatus]),
                 out |-> Returns(NoValue),
                 count |-> Cardinality(Owned(m, n)),
                 events |-> {"server:disconnected"}]

\* MCPManager.disconnectServer: [m, out, count, events]
disconnectServer(m, n, rejects) ==
  IF ~Has(m, n)
    THEN [m |-> m, out |-> Throws(Value("manager", "Server not found")), count |-> 0,
          events |-> {}]
    ELSE LET d == ClientDisconnect(m.host[n], rejects) IN
         [m |-> Manager(Without(m.servers, n),
                        [m.host EXCEPT ![n] = d.state],
                        [t \in ToolNames |-> IF m.toolMap[t] = n THEN "none" ELSE m.toolMap[t]],
                        [m.serverStatus EXCEPT ![n] = NoStatus]),
          out |-> Returns(NoValue),
          count |-> Cardinality(Owned(m, n)),
          events |-> (IF d.out.kind = "throw" THEN {"server:disconnect-error"} ELSE {})
                       \cup {"server:disconnected"}]

\* executeTool with a lookup that answers null for a name without an entry
executeToolSwallows(m, t, fails) ==
  IF m.toolMap[t] = "none"
    THEN [out |-> Returns(NoValue), calls |-> <<>>, events |-> {}]
    ELSE LET n == m.toolMap[t]
             r == ClientExecuteTool(m.host[n], n, t, fails) IN
         [out |-> r, calls |-> <<n>>,
          events |-> IF r.kind = "return" THEN {"tool:executed"} ELSE {"tool:error"}]

\* MCPManager.executeTool: [out, calls, events]
executeTool(m, t, fails) ==
  IF m.toolMap[t] = "none"
    THEN [out |-> Throws(Value("manager", "Tool not found")), calls |-> <<>>, events |-> {}]
    ELSE LET n == m.toolMap[t]
             r == ClientExecuteTool(m.host[n], n, t, fails) IN
         [out |-> r, calls |-> <<n>>,
          events |-> IF r.kind = "return" THEN {"tool:executed"} ELSE {"tool:error"}]

Install(m) ==
  /\ servers' = m.servers
  /\ host' = m.host
  /\ toolMap' = m.toolMap
  /\ serverStatus' = m.serverStatus

\* a caller awaits mcpManager.connectServer(name, config)
ConnectServer(n, config, ok) ==
  /\ commands < MaxCommands
  /\ commands' = commands + 1
  /\ mpc = "idle"
  /\ LET r == connectServer(This, n, config, ok) IN
       /\ Install(r.m)
       /\ lastCall' = Ret("connectServer", n, r.out.kind, r.out.value, 0, <<>>, r.events)
  /\ UNCHANGED <<mcpConfig, diskConfig, disabledServers, initialized, mpc, todo, results,
                 diff>>
  /\ UNCHANGED <<pcVars, orchVars, olVars, extVars>>

\* a caller awaits mcpManager.disconnectServer(name)
DisconnectServer(n, rejects) ==
  /\ commands < MaxCommands
  /\ commands' = commands + 1
  /\ mpc = "idle"
  /\ LET r == disconnectServer(This, n, rejects) IN
       /\ Install(r.m)
       /\ lastCall' = Ret("disconnectServer", n, r.out.kind, r.out.value, r.count, <<>>,
                          r.events)
  /\ UNCHANGED <<mcpConfig, diskConfig, disabledServers, initialized, mpc, todo, results,
                 diff>>
  /\ UNCHANGED <<pcVars, orchVars, olVars, extVars>>

\* a caller awaits mcpManager.executeTool(toolName, args)
ExecuteTool(t, fails) ==
  /\ commands < MaxCommands
  /\ commands' = commands + 1
  /\ mpc # "exited"
  /\ LET r == executeTool(This, t, fails) IN
       lastCall' = Ret("executeTool", t, r.out.kind, r.out.value, 0, r.calls, r.events)
  /\ UNCHANGED <<mcpConfig, diskConfig, servers, host, toolMap, serverStatus,
                 disabledServers, initialized, mpc, todo, results, diff>>
  /\ UNCHANGED <<pcVars, orchVars, olVars, extVars>>

\* the child process of a connected client exits ('exit') or reports an error
\* ('error'): the handlers registered by connectStdio call handleDisconnect
ProcessEvent(n, event) ==
  /\ commands < MaxCommands
  /\ commands' = commands + 1
  /\ mpc # "exited"
  /\ host[n].process = "running"
  /\ host' = [host EXCEPT ![n] =
                IF event = "exit" THEN HostState(FALSE, {}, "none")
                ELSE handleDisconnect(host[n])]
  /\ UNCHANGED <<mcpConfig, diskConfig, servers, toolMap, serverStatus, disabledServers,
                 initialized, mpc, todo, results, diff, lastCall>>
  /\ UNCHANGED <<pcVars, orchVars, olVars, extVars>>

\* MCPManager.shutdown: every host of this.servers is disconnected (a rejection is
\* reported and passed over), then the collections are cleared
shutdown(m, rejecting) ==
  [m |-> Manager(<<>>,
                 [n \in Hosts |-> IF Has(m, n)
                                    THEN ClientDisconnect(m.host[n], n \in rejecting).state
                                    ELSE m.host[n]],
                 [t \in ToolNames |-> "none"],
                 [n \in Hosts |-> NoStatus]),
   events |-> IF \E n \in rejecting : Has(m, n) /\ m.host[n].connected
                THEN {"server:shutdown-error"} ELSE {}]

\* MCPManager.getServerInfo: null (set = FALSE) without a server and a status
getServerInfo(m, n) ==
  [set |-> Has(m, n) \/ m.serverStatus[n].set,
   connected |-> Has(m, n),
   disabled |-> m.serverStatus[n].set /\ m.serverStatus[n].disabled,
   toolCount |-> Cardinality(Owned(m, n)),
   config |-> mcpConfig[n]]

\* MCPManager.getInitializationResult
getInitializationResult(m) ==
  [success |-> Cardinality({n \in Hosts : m.serverStatus[n].set /\ m.serverStatus[n].connected}),
   failed |-> Cardinality({n \in Hosts : /\ m.serverStatus[n].set
                                          /\ ~m.serverStatus[n].connected
                                          /\ ~m.serverStatus[n].disabled}),
   errors |-> LET failing == SelectSeq(HostOrder, LAMBDA n :
                               /\ m.serverStatus[n].set
                               /\ ~m.serverStatus[n].connected
                               /\ ~m.serverStatus[n].disabled
                               /\ m.serverStatus[n].error # "null")
              IN [i \in 1..Len(failing) |->
                    [server |-> failing[i], error |-> m.serverStatus[failing[i]].error]]]

\* MCPManager.initialize, up to its loop: an initialized manager answers from its
\* statuses, another one starts on the entries of the configuration
Initialize ==
  /\ commands < MaxCommands
  /\ commands' = commands + 1
  /\ mpc = "idle"
  /\ IF initialized
       THEN /\ results' = getInitializationResult(This)
            /\ lastCall' = Ret("initialize", "", "return", NoValue, results'.success, <<>>, {})
            /\ UNCHANGED <<mpc, todo>>
       ELSE /\ results' = NoResults
            /\ todo' = KeysOf(mcpConfig)
            /\ mpc' = "initializing"
            /\ UNCHANGED lastCall
  /\ UNCHANGED <<mcpConfig, diskConfig, servers, host, toolMap, serverStatus,
                 disabledServers, initialized, diff>>
  /\ UNCHANGED <<pcVars, orchVars, olVars, extVars>>

\* one turn of the loop of initialize, for the next entry of the configuration
InitStep(ok) ==
  /\ UNCHANGED commands
  /\ mpc \in {"starting", "initializing", "reinitializing"}
  /\ todo # <<>>
  /\ LET n == Head(todo)
         config == mcpConfig[n]
     IN IF n \in disabledServers \/ ~config.enabled
          THEN /\ serverStatus' = [serverStatus EXCEPT ![n] = Status(FALSE, TRUE, "null")]
               /\ UNCHANGED <<servers, host, toolMap, results>>
          ELSE LET r == connectServer(This, n, config, ok) IN
               IF r.out.kind = "return"
                 THEN /\ Install([r.m EXCEPT !.serverStatus[n] = Status(TRUE, FALSE, "null")])
                      /\ results' = [results EXCEPT !.success = @ + 1]
                 ELSE /\ Install([r.m EXCEPT
                                    !.serverStatus[n] = Status(FALSE, FALSE, r.out.value.text)])
                      /\ results' = [results EXCEPT
                                       !.failed = @ + 1,
                                       !.errors = Append(@, [server |-> n,
                                                             error |-> r.out.value.text])]
  /\ todo' = Tail(todo)
  /\ UNCHANGED <<mcpConfig, diskConfig, disabledServers, initialized, mpc, diff, lastCall>>
  /\ UNCHANGED <<pcVars, orchVars, olVars, extVars>>

\* the end of initialize; within mcpReload the command then returns its report, and in
\* one-shot mode the query is streamed next
InitEnd ==
  /\ UNCHANGED commands
  /\ mpc \in {"starting", "initializing", "reinitializing"}
  /\ todo = <<>>
  /\ initialized' = TRUE
  /\ lastCall' = Ret(IF mpc = "reinitializing" THEN "mcpReload" ELSE "initialize", "", "return",
                     Value("command", IF results.failed > 0 THEN "warning" ELSE "success"),
                     results.success, <<>>, {})
  /\ mpc' = IF mpc = "starting" THEN "query" ELSE "idle"
  /\ UNCHANGED <<mcpConfig, diskConfig, servers, host, toolMap, serverStatus,
                 disabledServers, todo, results, diff>>
  /\ UNCHANGED <<pcVars, orchVars, olVars, extVars>>

\* MCPManager.disableServer
disableServer(m, n, rejects) ==
  LET d == IF Has(m, n) THEN disconnectServer(m, n, rejects).m ELSE m IN
  [d EXCEPT !.serverStatus[n] =
     IF d.serverStatus[n].set THEN [d.serverStatus[n] EXCEPT !.disabled = TRUE]
     ELSE Status(FALSE, TRUE, "null")]

\* CommandService.mcpDisable
McpDisable(n, rejects) ==
  /\ commands < MaxCommands
  /\ commands' = commands + 1
  /\ mpc = "idle"
  /\ LET info == getServerInfo(This, n) IN
       IF ~info.set
         THEN /\ lastCall' = Ret("mcpDisable", n, "return", Value("command", "error"), 0, <<>>, {})
              /\ UNCHANGED <<servers, host, toolMap, serverStatus, disabledServers>>
       ELSE IF info.disabled
         THEN /\ lastCall' = Ret("mcpDisable", n, "return", Value("command", "info"), 0, <<>>, {})
              /\ UNCHANGED <<servers, host, toolMap, serverStatus, disabledServers>>
       ELSE /\ disabledServers' = disabledServers \cup {n}
            /\ Install(disableServer(This, n, rejects))
            /\ lastCall' = Ret("mcpDisable", n, "return", Value("command", "success"), 0, <<>>, {})
  /\ UNCHANGED <<mcpConfig, diskConfig, initialized, mpc, todo, results, diff>>
  /\ UNCHANGED <<pcVars, orchVars, olVars, extVars>>

\* MCPManager.enableServer: the marker goes and the status is no longer disabled
enableServer(m, n) ==
  [m EXCEPT !.serverStatus[n] = IF @.set THEN [@ EXCEPT !.disabled = FALSE] ELSE @]

\* CommandService.mcpEnable: enableServer, then connectServer(name, info.config);
\* without a configuration entry info.config is null and connectServer throws
McpEnable(n, ok) ==
  /\ commands < MaxCommands
  /\ commands' = commands + 1
  /\ mpc = "idle"
  /\ LET info == getServerInfo(This, n) IN
       IF ~info.set
         THEN /\ lastCall' = Ret("mcpEnable", n, "return", Value("command", "error"), 0, <<>>, {})
              /\ UNCHANGED <<servers, host, toolMap, serverStatus, disabledServers>>
       ELSE IF info.connected \/ ~info.disabled
         THEN /\ lastCall' = Ret("mcpEnable", n, "return", Value("command", "info"), 0, <<>>, {})
              /\ UNCHANGED <<servers, host, toolMap, serverStatus, disabledServers>>
       ELSE LET e == enableServer(This, n)
                r == IF info.config = NoEntry
                       THEN [m |-> e, out |-> Throws(Value("manager", "TypeError")), events |-> {}]
                       ELSE connectServer(e, n, info.config, ok)
            IN /\ disabledServers' = disabledServers \ {n}
               /\ Install(r.m)
               /\ lastCall' = Ret("mcpEnable", n, "return",
                                  Value("command", IF r.out.kind = "return" THEN "success"
                                                   ELSE "error"),
                                  Cardinality(Owned(r.m, n)), <<>>, r.events)
  /\ UNCHANGED <<mcpConfig, diskConfig, initialized, mpc, todo, results, diff>>
  /\ UNCHANGED <<pcVars, orchVars, olVars, extVars>>

\* ConfigService.reloadMCPConfig: the configuration is read again from mcp.json
reloadMCPConfig(disk) == disk

\* CommandService.mcpReload up to the call of initialize: the differences between the
\* connected hosts and the keys of the new configuration, then mcpManager.shutdown()
McpReload(rejecting) ==
  /\ commands < MaxCommands
  /\ commands' = commands + 1
  /\ mpc = "idle"
  /\ mcpConfig' = reloadMCPConfig(diskConfig)
  /\ LET oldServers == servers
         new == KeysOf(mcpConfig')
         InOld(n) == \E i \in 1..Len(oldServers) : oldServers[i] = n
         InNew(n) == \E i \in 1..Len(new) : new[i] = n
     IN diff' = [added |-> SelectSeq(new, LAMBDA n : ~InOld(n)),
                 removed |-> SelectSeq(oldServers, LAMBDA n : ~InNew(n)),
                 existing |-> SelectSeq(new, LAMBDA n : InOld(n))]
  /\ Install(shutdown(This, rejecting).m)
  /\ initialized' = FALSE
  /\ results' = NoResults
  /\ todo' = KeysOf(mcpConfig')
  /\ mpc' = "reinitializing"
  /\ UNCHANGED <<diskConfig, disabledServers, lastCall>>
  /\ UNCHANGED <<pcVars, orchVars, olVars, extVars>>

\* the end of RoninCLI.run and the SIGINT / SIGTERM handlers: mcpManager.shutdown()
\* is awaited, then the process exits
Exit(rejecting) ==
  /\ UNCHANGED commands
  /\ mpc # "exited"
  /\ LET r == shutdown(This, rejecting) IN
       /\ Install(r.m)
       /\ lastCall' = Ret("shutdown", "", "return", NoValue, 0, <<>>, r.events)
  /\ initialized' = FALSE
  /\ mpc' = "exited"
  /\ UNCHANGED <<mcpConfig, diskConfig, disabledServers, todo, results, diff>>
  /\ UNCHANGED <<pcVars, orchVars, olVars, extVars>>

\* RoninCLI.handleOneShotQuery, started with a query on the command line: initialize()
\* as at every start, then the query is streamed
OneShotQuery ==
  /\ mpc = "idle" /\ commands = 0
  /\ commands' = commands + 1
  /\ results' = NoResults
  /\ todo' = KeysOf(mcpConfig)
  /\ mpc' = "starting"
  /\ UNCHANGED <<mcpConfig, diskConfig, servers, host, toolMap, serverStatus,
                 disabledServers, initialized, diff, lastCall>>
  /\ UNCHANGED <<pcVars, orchVars, olVars, extVars>>

\* the end of handleOneShotQuery: process.exit(0) after the response, process.exit(1)
\* after an empty response or an error
OneShotExit ==
  /\ mpc = "query"
  /\ mpc' = "exited"
  /\ UNCHANGED <<mcpConfig, diskConfig, servers, host, toolMap, serverStatus,
                 disabledServers, initialized, todo, results, diff, lastCall, commands>>
  /\ UNCHANGED <<pcVars, orchVars, olVars, extVars>>

\* the user edits mcp.json
EditConfigFile(config) ==
  /\ commands < MaxCommands
  /\ commands' = commands + 1
  /\ mpc # "exited"
  /\ config # diskConfig
  /\ diskConfig' = config
  /\ UNCHANGED <<mcpConfig, servers, host, toolMap, serverStatus, disabledServers,
                 initialized, mpc, todo, results, diff, lastCall>>
  /\ UNCHANGED <<pcVars, orchVars, olVars, extVars>>

\* the configurations connectServer is called with
ConnectConfigs == {StdioEntry, SseEntry, WebSocketEntry, Entry("sse", TRUE, FALSE, TRUE)}

NextMCP ==
  \/ Initialize
  \/ \E ok \in BOOLEAN : InitStep(ok)
  \/ InitEnd
  \/ \E n \in Hosts, config \in ConnectConfigs, ok \in BOOLEAN : ConnectServer(n, config, ok)
  \/ \E n \in Hosts, rejects \in BOOLEAN : DisconnectServer(n, rejects)
  \/ \E t \in ToolNames, fails \in BOOLEAN : ExecuteTool(t, fails)
  \/ \E n \in Hosts, event \in {"exit", "error"} : ProcessEvent(n, event)
  \/ \E n \in Hosts, rejects \in BOOLEAN : McpDisable(n, rejects)
  \/ \E n \in Hosts, ok \in BOOLEAN : McpEnable(n, ok)
  \/ \E rejecting \in SUBSET Hosts : McpReload(rejecting)
  \/ \E rejecting \in SUBSET Hosts : Exit(rejecting)
  \/ \E config \in ConfigFiles : EditConfigFile(config)
  \/ OneShotQuery
  \/ OneShotExit

SpecMCP == InitPC /\ [][NextMCP]_vars

(***************************************************************************)
(* MCPManager: the claims                                                  *)
(***************************************************************************)
\* what the owning host answers to executeTool(t): its result, or the error it throws
HostAnswers(n, t, fails) ==
  IF ~host[n].connected THEN <<"throw", Value(n, "Server not connected")>>
  ELSE IF t \notin host[n].tools THEN <<"throw", Value(n, "Tool not found on server")>>
  ELSE IF fails THEN <<"throw", Value(n, "Tool execution failed")>>
  ELSE <<"return", Value(n, "content")>>

\* C21: executeTool(name) throws the manager's not-found error when the registry has no
\* entry for name, whatever the state of the manager; with an entry it calls the owning
\* host's executeTool exactly once and returns that host's result, or throws that host's
\* error, as the host gave it.
C21_ExecuteStep ==
  \A t \in ToolNames, fails \in BOOLEAN :
    ExecuteTool(t, fails) =>
      IF toolMap[t] = "none"
        THEN /\ lastCall'.kind = "throw"
             /\ lastCall'.value = Value("manager", "Tool not found")
             /\ lastCall'.calls = <<>>
        ELSE /\ lastCall'.calls = <<toolMap[t]>>
             /\ <<lastCall'.kind, lastCall'.value>> = HostAnswers(toolMap[t], t, fails)

C21_ExecuteTool == [][C21_ExecuteStep]_vars

\* executeTool("t") fails with not-found after its owner A was disconnected
C21_Witness ==
  /\ lastCall.op = "executeTool" /\ lastCall.arg = "t"
  /\ lastCall.kind = "throw" /\ lastCall.value = Value("manager", "Tool not found")
  /\ host["A"].process = "signalled" /\ ~Has(This, "A")

\* connectServer(n, config) left n connected with its tools registered
ConnectedAfter(n) == Has(This, n)' /\ \A t \in DeclaredTools(n) : toolMap'[t] = n

C22_ConnectStep(configs) ==
  \A n \in Hosts, config \in configs, ok \in BOOLEAN :
    (ConnectServer(n, config, ok) /\ ~Has(This, n)) =>
      (ConnectedAfter(n) \/ lastCall'.kind = "throw")

\* C22: connectServer(name, config) for a name that is not connected and a configuration
\* of a documented transport kind (stdio command, SSE url, WebSocket url) ends with name
\* connected and its tools in the registry, or throws; it never returns normally with
\* the host unconnected.
C22_ConnectsOrThrows == [][C22_ConnectStep({StdioEntry, SseEntry, WebSocketEntry})]_vars

\* the same for configurations with a command
C22_CommandConnectsOrThrows ==
  [][C22_ConnectStep({StdioEntry, Entry("sse", TRUE, FALSE, TRUE)})]_vars

\* the connected hosts that declare t, in the order in which they were connected
Declaring(t) == SelectSeq(servers, LAMBDA n : t \in DeclaredTools(n))

\* the entry of a tool, when there is one, belongs to the host connected last among
\* the connected hosts that declare it
C23_OwnerInv ==
  \A t \in ToolNames :
    toolMap[t] # "none" =>
      /\ Declaring(t) # <<>>
      /\ toolMap[t] = Declaring(t)[Len(Declaring(t))]

\* a host that gets connected owns every tool it declares, and executeTool goes to the
\* owner of the entry and to no other host
C23_CollisionStep ==
  /\ \A n \in Hosts :
       (~Has(This, n) /\ Has(This, n)') => \A t \in DeclaredTools(n) : toolMap'[t] = n
  /\ \A fails \in BOOLEAN :
       (ExecuteTool("t", fails) /\ toolMap["t"] = "B") => lastCall'.calls = <<"B">>

\* C23: a tool-name collision resolves to the host connected last: after connecting A
\* and then B, both declaring t, the registry's one entry for t is owned by B and
\* executeTool(t) is delegated to B, never to A.
C23_LastConnectedWins == []C23_OwnerInv /\ [][C23_CollisionStep]_vars

\* A then B were connected and executeTool("t") went to B
C23_Witness ==
  /\ servers = <<"A", "B">>
  /\ toolMap["t"] = "B" /\ toolMap["a"] = "A"
  /\ lastCall.op = "executeTool" /\ lastCall.arg = "t" /\ lastCall.calls = <<"B">>

C24_DisconnectStep ==
  \A n \in Hosts, rejects \in BOOLEAN :
    (DisconnectServer(n, rejects) /\ Has(This, n)) =>
      /\ ~Has(This, n)'
      /\ \A t \in ToolNames : toolMap'[t] # n
      /\ lastCall'.kind = "return"
      /\ lastCall'.count = Cardinality(Owned(This, n))
      /\ (rejects /\ host[n].connected) => "server:disconnect-error" \in lastCall'.events

\* C24: disconnectServer(name) for a connected host ends with name out of the connected
\* set and without any registry entry owned by name, whether or not the host's own
\* disconnect() throws; a teardown error is reported as server:disconnect-error and not
\* rethrown, and the returned toolCount is the number of entries name owned before the
\* call.
C24_BestEffortCleanup == [][C24_DisconnectStep]_vars

\* A's disconnect() failed; A and its two entries are gone, and toolCount is 2
C24_Witness ==
  /\ lastCall.op = "disconnectServer" /\ lastCall.arg = "A"
  /\ lastCall.kind = "return" /\ lastCall.count = 2
  /\ "server:disconnect-error" \in lastCall.events
  /\ ~Has(This, "A") /\ Owned(This, "A") = {}

\* mcpDisable(n) that reaches disableServer: n is marked, not connected, without entries
C25_DisableStep ==
  \A n \in Hosts, rejects \in BOOLEAN :
    (McpDisable(n, rejects) /\ lastCall'.value = Value("command", "success")) =>
      /\ n \in disabledServers'
      /\ ~Has(This, n)'
      /\ \A t \in ToolNames : toolMap'[t] # n

\* no turn of initialize, at start-up or within a reload, connects a marked host
C25_MarkerStep ==
  \A ok \in BOOLEAN, n \in disabledServers :
    (InitStep(ok) /\ ~Has(This, n)) => ~Has(This, n)'

\* mcpEnable(n) that reaches enableServer, for a host with a configuration entry of one
\* of the given kinds and a connection attempt that succeeds: the marker is cleared and n
\* is connected with its tools in the registry
C25_EnableStep(configs) ==
  \A n \in Hosts :
    (/\ McpEnable(n, TRUE)
     /\ mcpConfig[n] \in configs
     /\ ~Has(This, n) /\ getServerInfo(This, n).disabled) =>
      /\ n \notin disabledServers'
      /\ ConnectedAfter(n)

\* C25: after disableServer(name) the host is not connected and owns no registry entry,
\* and no later initialize() or reload connects it while the marker is set; enabling the
\* host clears the marker and the host is connected again with its tools back in the
\* registry.
C25_DisableMarker ==
  [][C25_DisableStep /\ C25_MarkerStep /\ C25_EnableStep(Entries)]_vars

\* the same, enabling a host whose configuration entry has a command
C25_DisableMarkerCommand ==
  [][C25_DisableStep /\ C25_MarkerStep /\ C25_EnableStep({StdioEntry, OffEntry})]_vars

\* the reload scenario: A and B are connected, mcp.json holds A as before and the new C
ReloadScenario ==
  /\ {servers[i] : i \in 1..Len(servers)} = {"A", "B"}
  /\ disabledServers = {}
  /\ mcpConfig = ServersOf(StdioEntry, StdioEntry, NoEntry)
  /\ diskConfig = ServersOf(StdioEntry, NoEntry, StdioEntry)

ScenarioDiff == [added |-> <<"C">>, removed |-> <<"B">>, existing |-> <<"A">>]

\* the attempts of the reload's initialize did not fail for the hosts of the set
Connectable(hs) == \A i \in 1..Len(results.errors) : results.errors[i].server \notin hs

C26_DiffStep ==
  \A rejecting \in SUBSET Hosts :
    (McpReload(rejecting) /\ ReloadScenario) => diff' = ScenarioDiff

C26_EndStep(hs) ==
  (/\ InitEnd /\ mpc = "reinitializing"
   /\ diff = ScenarioDiff /\ disabledServers = {} /\ Connectable(hs)) =>
    /\ Has(This, "A") /\ Has(This, "C") /\ ~Has(This, "B")
    /\ lastCall'.op = "mcpReload"

\* C26: starting with A and B connected and a new configuration of exactly A (unchanged)
\* and C (new, connectable), reload ends with A and C connected and B not connected, and
\* reports added = [C], removed = [B], existing = [A].
C26_ReloadDiff == [][C26_DiffStep /\ C26_EndStep({"C"})]_vars

\* the same when the attempt to connect A again succeeds too
C26_ReloadDiffReconnected == [][C26_DiffStep /\ C26_EndStep({"A", "C"})]_vars

\* a host that is connected, not disabled, and whose entry the reload does not change
Unchanged(n) ==
  /\ Has(This, n)
  /\ n \notin disabledServers
  /\ mcpConfig[n] # NoEntry /\ mcpConfig[n].enabled
  /\ mcpConfig'[n] = mcpConfig[n]

C27_ReloadStep ==
  \A rejecting \in SUBSET Hosts, n \in Hosts :
    (McpReload(rejecting) /\ Unchanged(n)) =>
      /\ host'[n] = host[n]
      /\ Has(This, n)'
      /\ \A t \in Owned(This, n) : toolMap'[t] = n

\* C27: during reload a host that is connected before the reload and whose configuration
\* entry is unchanged is left alone: its disconnect() is not invoked, it stays in the
\* connected set in every intermediate state of the reload, and its tools stay
\* executable.
C27_UnchangedLeftAlone == [][C27_ReloadStep]_vars

\* the hosts of the configuration that initialize does not skip
Active == {n \in Hosts : /\ mcpConfig[n] # NoEntry /\ mcpConfig[n].enabled
                         /\ n \notin disabledServers}
\* the hosts initialize reports as failed
Reported == {results.errors[i].server : i \in 1..Len(results.errors)}

\* initialize ends, after a failure, over a configuration whose active entries are of
\* the given kinds: it returns, every active host without a reported failure is
\* connected, the failures are reported with their errors, and success counts the
\* connected hosts
C28_EndStep(configs) ==
  (/\ InitEnd /\ results.errors # <<>>
   /\ \A n \in Active : mcpConfig[n] \in configs) =>
    /\ lastCall'.kind = "return"
    /\ \A n \in Active \ Reported : Has(This, n)
    /\ \A n \in Reported : /\ n \in Active /\ ~Has(This, n)
                           /\ serverStatus[n].error \in {"Connection failed",
                                                         "Unsupported transport"}
    /\ results.failed = Cardinality(Reported)
    /\ results.success = Cardinality({n \in Active : Has(This, n)})

\* a failing attempt does not end the loop of initialize
C28_LoopStep ==
  \A ok \in BOOLEAN :
    InitStep(ok) => (mpc' = mpc /\ todo' = Tail(todo))

\* C28: when initialize() (also used by reload) processes a configuration in which one
\* host fails to connect, it does not throw, every other non-disabled host of the
\* configuration is still attempted and connected, and the result reports the failing
\* host with its error and counts only the hosts that connected as successes.
C28_FailureIsolation == [][C28_LoopStep /\ C28_EndStep(Entries)]_vars

\* the same over configurations whose active entries all have a command
C28_FailureIsolationCommand == [][C28_LoopStep /\ C28_EndStep({StdioEntry})]_vars

\* the exit or error of the child process of n, a host the manager holds as connected
ProcessFails(n) == Has(This, n) /\ \E event \in {"exit", "error"} : ProcessEvent(n, event)

\* C29: when the child process of a host exits or errors unexpectedly, the host is
\* treated as disconnected and its tool entries are cleared: from then on the manager's
\* registry contains no tool owned by that host and the host is no longer reported as
\* connected.
C29_ImplicitDisconnect ==
  [][\A n \in Hosts :
       ProcessFails(n) => (~Has(This, n)' /\ \A t \in ToolNames : toolMap'[t] # n)]_vars

\* the client's own state is cleared by the event
C29_ClientDisconnected ==
  [][\A n \in Hosts :
       ProcessFails(n) => (~host'[n].connected /\ host'[n].tools = {})]_vars

\* the session ends in this step
Ends == mpc # "exited" /\ mpc' = "exited"

\* every child process that runs when the session ends is killed and its client cleared
AllShutDown ==
  \A n \in Hosts :
    host[n].process = "running" =>
      /\ host'[n].process = "signalled"
      /\ ~host'[n].connected /\ host'[n].tools = {}

\* every running child process belongs to a connected client the manager holds
C30_RunningInv ==
  \A n \in Hosts : host[n].process = "running" => (Has(This, n) /\ host[n].connected)

\* after the end of the session no child process is left running
C30_NoOrphanInv == mpc = "exited" => \A n \in Hosts : host[n].process # "running"

\* C30: abandoning the session (interrupt or terminate signal, or normal exit) shuts
\* every connected child-process host down: the child process of each connected
\* MCPClient is killed and its state cleared before the process exits, so no child
\* process started by a connected host is left running.
C30_ShutdownOnExit == []C30_RunningInv /\ []C30_NoOrphanInv /\ [][Ends => AllShutDown]_vars

\* the same for the signal handlers and the end of the interactive loop
C30_ShutdownOnSignal ==
  []C30_RunningInv /\ [][\A rejecting \in SUBSET Hosts : Exit(rejecting) => AllShutDown]_vars

(***************************************************************************)
(* BuiltInServer: the handlers and executeTool                             *)
(***************************************************************************)
\* what a handler does: it returns its data ("value"), returns an object that describes
\* a failure ("errvalue"), or throws; did is what it did to the world before
Handled(res, did, failed) == [res |-> res, did |-> did, failed |-> failed]
Effect(op, arg) == [op |-> op, arg |-> arg]

\* path.resolve(args.path) throws for anything but a string; fs.readFile
fileRead(args, world) ==
  IF args.path # "str" THEN Handled("throw", {}, FALSE)
  ELSE IF world = "ok" THEN Handled("value", {}, FALSE)
  ELSE Handled("throw", {}, TRUE)

\* path.resolve(args.path); fs.writeFile rejects data that is not a string
fileWrite(args, world) ==
  IF args.path # "str" \/ args.content # "str" THEN Handled("throw", {}, FALSE)
  ELSE IF world = "ok" THEN Handled("value", {Effect("write", "str")}, FALSE)
  ELSE Handled("throw", {}, TRUE)

\* execAsync(args.command, options) inside try: a command that is not a string and a
\* command that fails both end in the catch, which returns { stdout, stderr, command,
\* exitCode, error }
shellExecute(args, world) ==
  IF args.command # "str" THEN Handled("errvalue", {}, FALSE)
  ELSE IF world = "ok" THEN Handled("value", {Effect("exec", "str")}, FALSE)
  ELSE Handled("errvalue", {Effect("exec", "str")}, TRUE)

\* axios({ url, method: args.method || 'GET', headers, data }): without a url or with
\* a method that is not a string nothing is sent and the error has no response; an
\* error status comes back as { status, ..., error: true }
webRequest(args, world) ==
  IF args.url # "str" \/ args.method = "num" THEN Handled("throw", {}, FALSE)
  ELSE LET method == IF args.method = "abrequest" THEN "GET" ELSE args.method
           request == {Effect("http", method)} IN
       IF world = "ok" THEN Handled("value", request, FALSE)
       ELSE IF world = "status" THEN Handled("errvalue", request, TRUE)
       ELSE Handled("throw", request, TRUE)

\* tool.handler(args)
handler(tool, args, world) ==
  CASE tool = "file_read" -> fileRead(args, world)
    [] tool = "file_write" -> fileWrite(args, world)
    [] tool = "shell_execute" -> shellExecute(args, world)
    [] OTHER -> webRequest(args, world)

\* executeTool without the try around the handler
builtInExecuteToolUncaught(registered, tool, args, world) ==
  IF tool \notin registered
    THEN [out |-> Outcome("throw", FALSE, TRUE, FALSE, FALSE), did |-> {}]
    ELSE LET h == handler(tool, args, world) IN
         [out |-> Outcome(IF h.res = "throw" THEN "throw" ELSE "return", FALSE,
                          h.res # "value", TRUE, h.failed),
          did |-> h.did]

\* BuiltInServer.executeTool: [out, did]
builtInExecuteTool(registered, tool, args, world) ==
  IF tool \notin registered
    THEN [out |-> Outcome("throw", FALSE, TRUE, FALSE, FALSE), did |-> {}]
    ELSE LET h == handler(tool, args, world) IN
         [out |-> Outcome("return", h.res = "throw", h.res # "value", TRUE, h.failed),
          did |-> h.did]

\* BuiltInServer.initialize
BuiltInInitialize ==
  /\ biTools = {}
  /\ biTools' = BuiltInTools
  /\ UNCHANGED <<biLast, effects>>
  /\ UNCHANGED <<pcVars, orchVars, olVars, mcpVars, connVars, provVars>>

\* a caller awaits server.executeTool(toolName, args)
BuiltInExecuteTool(tool, args, world) ==
  /\ LET r == builtInExecuteTool(biTools, tool, args, world) IN
       /\ biLast' = r.out
       /\ effects' = effects \cup r.did
  /\ UNCHANGED biTools
  /\ UNCHANGED <<pcVars, orchVars, olVars, mcpVars, connVars, provVars>>

\* BuiltInServer.disconnect
BuiltInDisconnect ==
  /\ biTools # {}
  /\ biTools' = {}
  /\ UNCHANGED <<biLast, effects>>
  /\ UNCHANGED <<pcVars, orchVars, olVars, mcpVars, connVars, provVars>>

NextBuiltIn ==
  \/ BuiltInInitialize
  \/ \E tool \in BuiltInTools, world \in Worlds :
       \E args \in ArgsFor(tool) : BuiltInExecuteTool(tool, args, world)
  \/ BuiltInDisconnect

SpecBuiltIn == InitPC /\ [][NextBuiltIn]_vars

\* C31: the built-in host validates the input of every call against the tool's declared
\* schema before running it: a call whose input violates the schema (missing required
\* field, wrong type, value outside a declared enum) does not reach the tool's handler
\* and causes no side effect.
C31_ValidatedBeforeRun ==
  [][\A tool \in BuiltInTools, world \in Worlds :
       \A args \in ArgsFor(tool) :
         (BuiltInExecuteTool(tool, args, world) /\ ~Valid(tool, args)) =>
           (~biLast'.handler /\ effects' = effects)]_vars

\* C34: executeTool for a registered built-in tool never throws: every failure of the
\* underlying operation is returned as a result carrying the isError flag and a
\* message, and a successful operation returns a result without that flag.
C34_StructuredResult ==
  [][\A tool \in biTools, world \in Worlds :
       \A args \in ArgsFor(tool) :
         BuiltInExecuteTool(tool, args, world) =>
           /\ biLast'.kind = "return"
           /\ biLast'.failed => (biLast'.isError /\ biLast'.error)
           /\ (Valid(tool, args) /\ ~biLast'.failed) => ~biLast'.isError]_vars

\* C34, amended: executeTool for a registered built-in tool never throws: every failure
\* of the underlying operation is returned as a result with an error field, which
\* comes with the isError flag exactly when the handler threw (the file tools, a request
\* without a response); a successful operation returns a result with neither.
C34_ErrorIndicated ==
  [][\A tool \in biTools, world \in Worlds :
       \A args \in ArgsFor(tool) :
         BuiltInExecuteTool(tool, args, world) =>
           /\ biLast'.kind = "return"
           /\ biLast'.failed => biLast'.error
           /\ biLast'.isError <=> (handler(tool, args, world).res = "throw")
           /\ biLast'.isError => biLast'.error
           /\ (Valid(tool, args) /\ ~biLast'.failed) =>
                (~biLast'.isError /\ ~biLast'.error)]_vars

\* a command was run and failed: the result has an error field and no isError flag
C34_Witness ==
  /\ biLast = Outcome("return", FALSE, TRUE, TRUE, TRUE)
  /\ Effect("exec", "str") \in effects

\* C32: when the stream reaches message_stop, or ends, while a tool call is still open
\* (started, no content_block_stop seen), the call is closed implicitly: it is recorded
\* among the round's tool calls with a result, and the round goes on to a request that
\* carries the tool_result paired with it.
C32_ImplicitClose ==
  [][(RoundEnds /\ currentToolUse.open) =>
       /\ \E k \in 1..Len(toolUseBlocks) : toolUseBlocks[k].id = currentToolUse.id
       /\ pc' = "request"
       /\ \E i \in (Len(messages) + 1)..Len(messages') :
            \E k \in 1..Len(messages'[i].blocks) :
              /\ messages'[i].blocks[k].type = "tool_result"
              /\ messages'[i].blocks[k].tool_use_id = currentToolUse.id]_vars

\* a tool call with well-formed arguments reaches its end marker, with mcpManager and
\* an approval interface present
AtApprovalCheck ==
  /\ AtLine
  /\ Cur.type = "content_block_stop"
  /\ currentToolUse.open
  /\ JSONparse(currentToolUse.input).ok
  /\ cfg.mcp /\ cfg.cli /\ ~cfg.local

PreApproved == isApproved(pcache["req"], CurrentCall.name, CurrentCall.input, now).ret

C33_AskStep ==
  /\ AtApprovalCheck =>
       IF PreApproved
         THEN /\ pc' = "executing"
              /\ executed' = Append(executed, Invocation(callSeq + 1, currentToolUse.id,
                                                         CurrentCall))
              /\ [seq |-> callSeq + 1, how |-> "cached"] \in approvals'
         ELSE /\ pc' = "asking"
              /\ executed' = executed
  /\ pc' = "asking" => (AtApprovalCheck /\ ~PreApproved)
  /\ pc = "asking" => pc' \in {"executing", "stream"}

C33_RememberStep ==
  \A a \in Answers :
    (Answer(a) /\ a.remember) =>
       /\ HasKey(pcache'["req"], KeyOf(CurrentCall))
       /\ file'.exists /\ HasKey(file'.data, KeyOf(CurrentCall))
       /\ executed' = Append(executed, Invocation(callSeq, currentToolUse.id, CurrentCall))
       /\ pc' = "executing"

C33_LaterStep ==
  (AtApprovalCheck /\ CurrentCall \in remembered /\ ~AlwaysAskOn("req")) =>
     (PreApproved /\ pc' = "executing")

StillConnected == {n \in Hosts : Has(This, n) /\ host[n].connected}

\* C35: between the manager's calls, every tool declared by a host that is still
\* connected has an entry in the registry, and the entry belongs to a connected host
\* that declares the tool, so that executeTool reaches a host that can run it; with A
\* and B both declaring t, t stays executable through A after B was disconnected.
C35_RegistryAvailable ==
  mpc = "idle" =>
    \A n \in StillConnected :
      \A t \in DeclaredTools(n) :
        /\ toolMap[t] \in StillConnected
        /\ t \in DeclaredTools(toolMap[t])

\* C36: when initialize returns, a configured host it went through has the status
\* connected exactly if it is in the map of connected servers, and the success count
\* is the number of those hosts, hosts configured with a url only included.
C36_StatusConsistent ==
  [][InitEnd =>
       /\ \A n \in Active :
            (serverStatus[n].set /\ serverStatus[n].connected) <=> Has(This, n)
       /\ results.success = Cardinality({n \in Active : Has(This, n)})]_vars

(***************************************************************************)
(* MCPClient.connect step by step: the awaits of connect and of its callers *)
(* are the points at which the event loop can deliver a child's exit        *)
(***************************************************************************)
\* MCPClient.handleDisconnect on a client: the state is cleared, the process killed
clientHandleDisconnect(c) ==
  McpClient(FALSE, FALSE, FALSE, IF c.process = "none" THEN "none" ELSE "dead")

\* (variant: an event is delivered between the return of connect and the caller's
\* continuation too)
EventLoopTurnsAnywhere == {"idle", "handshake", "listing", "resolved"}

\* the positions at which a call waits for I/O, so that the event loop can run the
\* 'exit' or 'error' handler of a child process; the continuation of
\* 'await server.connect()' is a microtask that runs before any such handler
EventLoopTurns == {"idle", "handshake", "listing"}

\* connect rejects: connectServer lets the error through, testServerConnection turns
\* it into { success: false }; the MCPClient is referenced by nobody any more
ConnectRejects(stage) ==
  /\ cpc' = "idle"
  /\ inflight' = NoCall
  /\ leaked' = leaked + (IF inflight.client.process = "running" THEN 1 ELSE 0)
  /\ clast' = Ended(inflight.op, inflight.name,
                    IF inflight.op = "connectServer" THEN "throw" ELSE "return",
                    FALSE, stage)
  /\ UNCHANGED <<held, cservers, cowned, attempts>>

\* connectServer(name, config) or testServerConnection(name, config) with a command,
\* up to the first await: the early return, the transport test, connectStdio
ConnectCall(op, n, transport) ==
  /\ cpc = "idle"
  /\ attempts < MaxAttempts
  /\ attempts' = attempts + 1
  /\ IF op = "connectServer" /\ n \in cservers
       THEN /\ clast' = Ended(op, n, "return", FALSE, "has")
            /\ UNCHANGED <<cpc, inflight, held, cservers, cowned, leaked>>
     ELSE IF transport # "stdio"
       THEN /\ clast' = Ended(op, n, IF op = "connectServer" THEN "throw" ELSE "return",
                              FALSE, "transport")
            /\ UNCHANGED <<cpc, inflight, held, cservers, cowned, leaked>>
       ELSE /\ inflight' = InFlight(op, n, McpClient(FALSE, FALSE, TRUE, "running"))
            /\ cpc' = "handshake"
            /\ UNCHANGED <<held, cservers, cowned, leaked, clast>>
  /\ UNCHANGED <<pcVars, orchVars, olVars, mcpVars, biVars, provVars>>

\* 'await this.client.connect(this.transport)' settles; after it this.client.listTools()
\* is called, on null when handleDisconnect ran meanwhile
Handshake(ok) ==
  /\ cpc = "handshake"
  /\ IF ok /\ inflight.client.client
       THEN /\ cpc' = "listing"
            /\ UNCHANGED <<inflight, held, cservers, cowned, leaked, attempts, clast>>
       ELSE ConnectRejects("handshake")
  /\ UNCHANGED <<pcVars, orchVars, olVars, mcpVars, biVars, provVars>>

\* 'await this.client.listTools()' settles; the tools are stored and connected is set
Listing(ok) ==
  /\ cpc = "listing"
  /\ IF ok
       THEN /\ cpc' = "resolved"
            /\ inflight' = [inflight EXCEPT !.client.connected = TRUE,
                                            !.client.listed = TRUE]
            /\ UNCHANGED <<held, cservers, cowned, leaked, attempts, clast>>
       ELSE ConnectRejects("listing")
  /\ UNCHANGED <<pcVars, orchVars, olVars, mcpVars, biVars, provVars>>

\* the caller goes on after 'await server.connect()': connectServer stores the server
\* and registers what listTools returns; testServerConnection lists and disconnects
Resolved ==
  /\ cpc = "resolved"
  /\ cpc' = "idle"
  /\ inflight' = NoCall
  /\ LET c == inflight.client
         n == inflight.name IN
     IF inflight.op = "connectServer"
       THEN /\ cservers' = cservers \cup {n}
            /\ held' = [held EXCEPT ![n] = c]
            /\ IF c.connected
                 THEN /\ cowned' = cowned \cup {n}
                      /\ clast' = Ended("connectServer", n, "return", TRUE, "registered")
                 ELSE /\ cowned' = cowned
                      /\ clast' = Ended("connectServer", n, "throw", FALSE, "listTools")
            /\ UNCHANGED leaked
       ELSE /\ clast' = Ended("testServerConnection", n, "return", c.connected, "listTools")
            /\ UNCHANGED <<held, cservers, cowned, leaked>>
  /\ UNCHANGED attempts
  /\ UNCHANGED <<pcVars, orchVars, olVars, mcpVars, biVars, provVars>>

\* the child process of the client in flight exits or reports an error
ChildExitInFlight ==
  /\ cpc \in EventLoopTurns
  /\ inflight.client.process = "running"
  /\ inflight' = [inflight EXCEPT !.client = clientHandleDisconnect(inflight.client)]
  /\ UNCHANGED <<cpc, held, cservers, cowned, leaked, attempts, clast>>
  /\ UNCHANGED <<pcVars, orchVars, olVars, mcpVars, biVars, provVars>>

\* the child process of a client the manager holds exits or reports an error
ChildExitHeld(n) ==
  /\ cpc \in EventLoopTurns
  /\ held[n].process = "running"
  /\ held' = [held EXCEPT ![n] = clientHandleDisconnect(held[n])]
  /\ UNCHANGED <<cpc, inflight, cservers, cowned, leaked, attempts, clast>>
  /\ UNCHANGED <<pcVars, orchVars, olVars, mcpVars, biVars, provVars>>

\* a child process nobody references exits by itself
ChildExitLeaked ==
  /\ cpc \in EventLoopTurns
  /\ leaked > 0
  /\ leaked' = leaked - 1
  /\ UNCHANGED <<cpc, inflight, held, cservers, cowned, attempts, clast>>
  /\ UNCHANGED <<pcVars, orchVars, olVars, mcpVars, biVars, provVars>>

\* disconnectServer(name) of a held server: disconnect(), then the entries and the
\* server are deleted
ConnDisconnect(n) ==
  /\ cpc = "idle"
  /\ attempts < MaxAttempts
  /\ attempts' = attempts + 1
  /\ n \in cservers
  /\ cservers' = cservers \ {n}
  /\ cowned' = cowned \ {n}
  /\ held' = [held EXCEPT ![n] = NoClient]
  /\ clast' = Ended("disconnectServer", n, "return", TRUE, "none")
  /\ UNCHANGED <<cpc, inflight, leaked>>
  /\ UNCHANGED <<pcVars, orchVars, olVars, mcpVars, biVars, provVars>>

NextConnect ==
  \/ \E op \in {"connectServer", "testServerConnection"}, n \in Clients,
        transport \in {"stdio", "sse"} : ConnectCall(op, n, transport)
  \/ \E ok \in BOOLEAN : Handshake(ok)
  \/ \E ok \in BOOLEAN : Listing(ok)
  \/ Resolved
  \/ ChildExitInFlight
  \/ \E n \in Clients : ChildExitHeld(n)
  \/ ChildExitLeaked
  \/ \E n \in Clients : ConnDisconnect(n)

\* the manager connecting, testing and disconnecting servers while their child
\* processes may exit
SpecConnect == InitPC /\ [][NextConnect]_vars

C37_ThrowInv ==
  (clast.op = "connectServer" /\ clast.kind = "throw") =>
     (clast.name \notin cservers /\ clast.name \notin cowned)

C37_RetryStep ==
  \A n \in Clients :
    (/\ ConnectCall("connectServer", n, "stdio")
     /\ clast.op = "connectServer" /\ clast.kind = "throw" /\ clast.name = n) =>
       (cpc' = "handshake" /\ inflight'.name = n /\ inflight'.client.process = "running")

\* C37: when connectServer(name, config) throws, at the handshake or at the tool
\* listing after the child process exited, name is not in the map of connected
\* servers and owns no registry entry, and a later connectServer(name, config) makes
\* a fresh connection attempt.
C37_AllOrNothing == [](C37_ThrowInv) /\ [][C37_RetryStep]_vars

\* connectServer threw at the tool listing after the child had exited, and the next
\* connectServer for the same name is under way
C37_Witness ==
  /\ clast.op = "connectServer" /\ clast.kind = "throw" /\ clast.stage = "listing"
  /\ cpc = "handshake" /\ inflight.op = "connectServer" /\ inflight.name = clast.name

\* C39: a failed connect leaves no child process behind: between calls every live
\* child process belongs to a client whose connected flag is true.
C39_NoOrphan ==
  cpc = "idle" =>
    /\ leaked = 0
    /\ \A n \in Clients : held[n].process = "running" => held[n].connected

(***************************************************************************)
(* LLMProviderManager                                                      *)
(***************************************************************************)
ProviderTypes == {"anthropic", "ollama", "inline-llm"}

\* LLMProviderManager.initialize(config): [m, kind]; ok tells whether Ollama answers,
\* or whether node-llama-cpp initializes
initialize(m, providerType, ok) ==
  LET set == [m EXCEPT !.config = providerType, !.providerType = providerType] IN
  IF providerType = "ollama"
    THEN [m |-> [set EXCEPT !.provider = "ollama", !.loaded = FALSE],
          kind |-> IF ok THEN "return" ELSE "throw"]
  ELSE IF providerType = "inline-llm"
    THEN [m |-> [set EXCEPT !.provider = "inline-llm", !.loaded = FALSE],
          kind |-> IF ok THEN "return" ELSE "throw"]
  ELSE [m |-> [set EXCEPT !.providerType = "anthropic"], kind |-> "return"]

\* LLMProviderManager.switchProvider(providerType, config)
switchProvider(m, providerType, ok) ==
  LET cleaned == IF m.provider # "null" /\ m.providerType = "inline-llm"
                   THEN [m EXCEPT !.loaded = FALSE] ELSE m IN
  initialize(cleaned, providerType, ok)

getProviderType(m) == m.providerType
getProvider(m) == m.provider
isLocalProvider(m) == m.providerType \in {"ollama", "inline-llm"}

\* initializeLLMProvider(config) of api.js: the manager is created, then initialized
InitializeLLMProvider(providerType, ok) ==
  /\ LET r == initialize(IF llm = NoManager THEN NewManager ELSE llm, providerType, ok) IN
       /\ llm' = r.m
       /\ pmLast' = [op |-> "initialize", arg |-> providerType, kind |-> r.kind]
  /\ UNCHANGED <<llmSaved, dispatched>>
  /\ UNCHANGED <<pcVars, orchVars, olVars, mcpVars, biVars, connVars>>

\* the /provider command with a valid name: manager.switchProvider(provider, config),
\* and after it the preference is saved
SwitchProvider(providerType, ok) ==
  /\ llm # NoManager
  /\ LET r == switchProvider(llm, providerType, ok) IN
       /\ llm' = r.m
       /\ pmLast' = [op |-> "switchProvider", arg |-> providerType, kind |-> r.kind]
       /\ llmSaved' = IF r.kind = "return" THEN providerType ELSE llmSaved
  /\ UNCHANGED dispatched
  /\ UNCHANGED <<pcVars, orchVars, olVars, mcpVars, biVars, connVars>>

\* LLMProviderManager.loadModel with a model that is there
LoadModel ==
  /\ llm.providerType = "inline-llm" /\ llm.provider # "null"
  /\ ~llm.loaded
  /\ llm' = [llm EXCEPT !.loaded = TRUE]
  /\ pmLast' = [op |-> "loadModel", arg |-> "inline-llm", kind |-> "return"]
  /\ UNCHANGED <<llmSaved, dispatched>>
  /\ UNCHANGED <<pcVars, orchVars, olVars, mcpVars, biVars, connVars>>

\* the dispatch at the head of getClaudeResponse, and getLocalLLMResponse's getProvider
GetClaudeResponse ==
  /\ dispatched' = IF llm # NoManager /\ isLocalProvider(llm)
                     THEN (IF getProvider(llm) = "null" THEN "not initialized"
                           ELSE getProvider(llm))
                     ELSE "anthropic"
  /\ dispatched' # dispatched
  /\ UNCHANGED <<llm, pmLast, llmSaved>>
  /\ UNCHANGED <<pcVars, orchVars, olVars, mcpVars, biVars, connVars>>

NextProvider ==
  \/ \E t \in ProviderTypes, ok \in BOOLEAN : InitializeLLMProvider(t, ok)
  \/ \E t \in ProviderTypes, ok \in BOOLEAN : SwitchProvider(t, ok)
  \/ LoadModel
  \/ GetClaudeResponse

\* the provider manager under the /provider command and the requests
SpecProvider == InitPC /\ [][NextProvider]_vars

\* C40: a switchProvider that throws changes nothing: getProviderType, getProvider and
\* isLocalProvider answer afterwards what they answered before the call.
C40_FailedSwitchKeepsProvider ==
  [][\A t \in ProviderTypes, ok \in BOOLEAN :
       (SwitchProvider(t, ok) /\ pmLast'.kind = "throw") =>
          /\ getProviderType(llm') = getProviderType(llm)
          /\ getProvider(llm') = getProvider(llm)
          /\ isLocalProvider(llm') = isLocalProvider(llm)]_vars

\* C38: with the instance of CommandService and the instance of a request alive in
\* one process, an approval remembered through one of them stays in the persisted
\* file through every later mutation made through the other, while it is within the
\* TTL and clearCache has not been called.
C38_NoLostApproval ==
  \A key \in DOMAIN addedAt :
    (addedAt[key] >= 0 /\ now - addedAt[key] <= TTL) =>
       (file.exists /\ HasKey(file.data, key))

====
